---- MODULE Spec2Model ----
(***************************************************************************)
(* pgx-collect: the struct field caches.                                   *)
(*                                                                         *)
(* The model follows the cached resolvers GetStructRowFieldsByPos and      *)
(* GetStructRowFieldsByName, the per-type field table behind them, and the *)
(* strict / lax check of namedStructScanner.initialize.  Every access to a *)
(* sync.Map is one atomic step of the calling goroutine; what a goroutine  *)
(* computes on its own values between two accesses belongs to the step of  *)
(* the access before it.                                                   *)
(*                                                                         *)
(* Strings are sequences of one-character strings, so that underscore      *)
(* removal, case folding and the cut at a comma are computed.  Indices     *)
(* into Go slices are 0-based, as in the source; a TLA+ sequence holds     *)
(* the element of index i at position i + 1.                               *)
(***************************************************************************)
EXTENDS Integers, Sequences, FiniteSets, TLC

(***************************************************************************)
(* Bounds of the model.                                                    *)
(***************************************************************************)
\* Goroutines that call into the caches concurrently.
NumCallers == 2
\* Calls started in one run, over all goroutines.
MaxCalls == 2

(***************************************************************************)
(* Strings.                                                                *)
(***************************************************************************)
UpperLetters ==
  <<"A","B","C","D","E","F","G","H","I","J","K","L","M",
    "N","O","P","Q","R","S","T","U","V","W","X","Y","Z">>

LowerLetters ==
  <<"a","b","c","d","e","f","g","h","i","j","k","l","m",
    "n","o","p","q","r","s","t","u","v","w","x","y","z">>

\* Upper case letter -> lower case letter.
ToLower ==
  [c \in { UpperLetters[i] : i \in 1..Len(UpperLetters) } |->
     LowerLetters[CHOOSE i \in 1..Len(UpperLetters) : UpperLetters[i] = c]]

\* The case folding of strings.EqualFold on one ASCII character.
FoldChar(c) == IF c \in DOMAIN ToLower THEN ToLower[c] ELSE c

\* strings.EqualFold(s, t).
EqualFold(s, t) ==
  /\ Len(s) = Len(t)
  /\ \A i \in 1..Len(s) : FoldChar(s[i]) = FoldChar(t[i])

IsNotUnderscore(c) == c # "_"

\* strings.ReplaceAll(s, "_", "").
StripUnderscores(s) == SelectSeq(s, IsNotUnderscore)

\* The first result of strings.Cut(s, ","): s up to its first comma.
RECURSIVE CutComma(_)
CutComma(s) ==
  IF s = << >> \/ Head(s) = "," THEN << >>
  ELSE <<Head(s)>> \o CutComma(Tail(s))

(***************************************************************************)
(* Record types, as reflect shows them.  A type is known by its name; a    *)
(* field is its reflect.StructField: Name, Anonymous, PkgPath (empty for   *)
(* an exported field), the "db" tag as Tag.Lookup returns it, and Type.    *)
(***************************************************************************)
NoTag == [present |-> FALSE, value |-> << >>]

DbTag(v) == [present |-> TRUE, value |-> v]

Fld(name, typ) ==
  [Name |-> name, Anonymous |-> FALSE, PkgPath |-> "", Tag |-> NoTag, Type |-> typ]

TaggedFld(name, typ, tag) ==
  [Name |-> name, Anonymous |-> FALSE, PkgPath |-> "", Tag |-> DbTag(tag), Type |-> typ]

\* type person struct { Last string; First string; Age int32;
\*                      Ignore bool `db:"-"` }
PersonFields ==
  << Fld(<<"L","a","s","t">>, "string"),
     Fld(<<"F","i","r","s","t">>, "string"),
     Fld(<<"A","g","e">>, "int32"),
     TaggedFld(<<"I","g","n","o","r","e">>, "bool", <<"-">>) >>

\* type note struct { Text string `db:",omitempty"`; ID int }
NoteFields ==
  << TaggedFld(<<"T","e","x","t">>, "string",
               <<",","o","m","i","t","e","m","p","t","y">>),
     Fld(<<"I","D">>, "int") >>

\* An embedded (anonymous) field: its name is the name of its type without
\* the star; PkgPath is empty when that name is exported.
Embedded(name, typ, pkgPath) ==
  [Name |-> name, Anonymous |-> TRUE, PkgPath |-> pkgPath, Tag |-> NoTag, Type |-> typ]

\* A field whose name is not exported.
Unexported(name, typ) ==
  [Name |-> name, Anonymous |-> FALSE, PkgPath |-> "pgx_collect_test",
   Tag |-> NoTag, Type |-> typ]

\* type Name struct { First string; Last string }, and the same as type name
NameFields ==
  << Fld(<<"F","i","r","s","t">>, "string"),
     Fld(<<"L","a","s","t">>, "string") >>

\* type person struct { Name; Age int32 }
PersonNameFields ==
  << Embedded(<<"N","a","m","e">>, "Name", ""),
     Fld(<<"A","g","e">>, "int32") >>

\* type person struct { name; Age int32 }
PersonLowerFields ==
  << Embedded(<<"n","a","m","e">>, "name", "pgx_collect_test"),
     Fld(<<"A","g","e">>, "int32") >>

\* type person struct { *Name; Age int32 }
PersonPtrFields ==
  << Embedded(<<"N","a","m","e">>, "*Name", ""),
     Fld(<<"A","g","e">>, "int32") >>

\* type person struct { *name; Age int32 }
PersonPtrLowerFields ==
  << Embedded(<<"n","a","m","e">>, "*name", "pgx_collect_test"),
     Fld(<<"A","g","e">>, "int32") >>

\* type Sandwich struct { Bread string; Salad string }
SandwichFields ==
  << Fld(<<"B","r","e","a","d">>, "string"),
     Fld(<<"S","a","l","a","d">>, "string") >>

\* type Drink struct { Ml int }
DrinkFields == << Fld(<<"M","l">>, "int") >>

\* type meal struct { Sandwich; Drink }
MealFields ==
  << Embedded(<<"S","a","n","d","w","i","c","h">>, "Sandwich", ""),
     Embedded(<<"D","r","i","n","k">>, "Drink", "") >>

\* type staff struct { ID int; person }, person being { Name; Age int32 }:
\* an embedded struct that embeds a struct.
StaffFields ==
  << Fld(<<"I","D">>, "int"),
     Embedded(<<"p","e","r","s","o","n">>, "personName", "pgx_collect_test") >>

\* type account struct { Email string `db:"email,omitempty"`;
\*                       Gone string `db:"-,omitempty"`;
\*                       Last string `db:"last_name"`;
\*                       secret string; Age int32 `db:"-"` }
AccountFields ==
  << TaggedFld(<<"E","m","a","i","l">>, "string",
               <<"e","m","a","i","l",",","o","m","i","t","e","m","p","t","y">>),
     TaggedFld(<<"G","o","n","e">>, "string",
               <<"-",",","o","m","i","t","e","m","p","t","y">>),
     TaggedFld(<<"L","a","s","t">>, "string",
               <<"l","a","s","t","_","n","a","m","e">>),
     Unexported(<<"s","e","c","r","e","t">>, "string"),
     TaggedFld(<<"A","g","e">>, "int32", <<"-">>) >>

StructTypes ==
  {"person", "note", "Name", "name", "personName", "personLower", "personPtr",
   "personPtrLower", "Sandwich", "Drink", "meal", "staff", "account"}

\* Pointers to structs.
PtrTypes == {"*Name", "*name"}

\* reflect.Type.Kind().
Kind(t) ==
  IF t \in StructTypes THEN "struct"
  ELSE IF t \in PtrTypes THEN "ptr"
  ELSE "scalar"

\* reflect.Type.Elem() of a pointer type.
Elem(t) == IF t = "*Name" THEN "Name" ELSE IF t = "*name" THEN "name" ELSE t

StructFields(t) ==
  CASE t = "person" -> PersonFields
    [] t = "note" -> NoteFields
    [] t \in {"Name", "name"} -> NameFields
    [] t = "personName" -> PersonNameFields
    [] t = "personLower" -> PersonLowerFields
    [] t = "personPtr" -> PersonPtrFields
    [] t = "personPtrLower" -> PersonPtrLowerFields
    [] t = "Sandwich" -> SandwichFields
    [] t = "Drink" -> DrinkFields
    [] t = "meal" -> MealFields
    [] t = "staff" -> StaffFields
    [] t = "account" -> AccountFields

\* reflect.Type.NumField().
NumField(t) == Len(StructFields(t))

\* reflect.Type.Field(i), i from 0.
Field(t, i) == StructFields(t)[i + 1]

(***************************************************************************)
(* The per-type field table.                                               *)
(***************************************************************************)
\* Mutant of TagName: the tag is not cut at the comma.
TagNameWhole(sf) == sf.Tag.value

\* The db tag cut at its first comma, when the tag is present.
TagName(sf) == IF sf.Tag.present THEN CutComma(sf.Tag.value) ELSE sf.Tag.value

\* The column name of a field that is not skipped.
ColNameOf(sf) == IF sf.Tag.present THEN TagName(sf) ELSE sf.Name

\* Mutant of helper: the index of the embedded field is not kept in the
\* paths of the embedded struct's fields.
RECURSIVE helperDropsPrefix(_, _, _)
helperDropsPrefix(t, fieldStack, i) ==
  IF i >= NumField(t) THEN << >>
  ELSE
    LET sf == Field(t, i)
        path == fieldStack \o <<i>>
        here ==
          IF sf.Anonymous /\ Kind(sf.Type) = "struct"
          THEN helperDropsPrefix(sf.Type, fieldStack, 0)
          ELSE IF sf.PkgPath = ""
          THEN IF TagName(sf) = <<"-">>
               THEN << >>
               ELSE << [field |-> [path |-> path], name |-> ColNameOf(sf)] >>
          ELSE << >>
    IN here \o helperDropsPrefix(t, fieldStack, i + 1)

\* Mutant of helper: visibility is checked first, for every field.
RECURSIVE helperChecksVisibilityFirst(_, _, _)
helperChecksVisibilityFirst(t, fieldStack, i) ==
  IF i >= NumField(t) THEN << >>
  ELSE
    LET sf == Field(t, i)
        path == fieldStack \o <<i>>
        here ==
          IF sf.PkgPath # "" THEN << >>
          ELSE IF sf.Anonymous /\ Kind(sf.Type) = "struct"
          THEN helperChecksVisibilityFirst(sf.Type, path, 0)
          ELSE IF TagName(sf) = <<"-">>
               THEN << >>
               ELSE << [field |-> [path |-> path], name |-> ColNameOf(sf)] >>
    IN here \o helperChecksVisibilityFirst(t, fieldStack, i + 1)

\* Mutant of helper: an embedded pointer is skipped, whether its name is
\* exported or not.
RECURSIVE helperSkipsPointers(_, _, _)
helperSkipsPointers(t, fieldStack, i) ==
  IF i >= NumField(t) THEN << >>
  ELSE
    LET sf == Field(t, i)
        path == fieldStack \o <<i>>
        here ==
          IF sf.Anonymous /\ Kind(sf.Type) = "struct"
          THEN helperSkipsPointers(sf.Type, path, 0)
          ELSE IF sf.PkgPath = "" /\ ~(sf.Anonymous /\ Kind(sf.Type) = "ptr")
          THEN IF TagName(sf) = <<"-">>
               THEN << >>
               ELSE << [field |-> [path |-> path], name |-> ColNameOf(sf)] >>
          ELSE << >>
    IN here \o helperSkipsPointers(t, fieldStack, i + 1)

\* Mutant of helper: an embedded pointer to a struct is walked like an
\* embedded struct.
RECURSIVE helperFollowsPointers(_, _, _)
helperFollowsPointers(t, fieldStack, i) ==
  IF i >= NumField(t) THEN << >>
  ELSE
    LET sf == Field(t, i)
        path == fieldStack \o <<i>>
        here ==
          IF sf.Anonymous /\ Kind(Elem(sf.Type)) = "struct"
          THEN helperFollowsPointers(Elem(sf.Type), path, 0)
          ELSE IF sf.PkgPath = ""
          THEN IF TagName(sf) = <<"-">>
               THEN << >>
               ELSE << [field |-> [path |-> path], name |-> ColNameOf(sf)] >>
          ELSE << >>
    IN here \o helperFollowsPointers(t, fieldStack, i + 1)

\* The helper closure of computeStructFieldNames, from field i on;
\* fieldStack is the path of the struct being walked.
RECURSIVE helper(_, _, _)
helper(t, fieldStack, i) ==
  IF i >= NumField(t) THEN << >>
  ELSE
    LET sf == Field(t, i)
        path == fieldStack \o <<i>>
        here ==
          IF sf.Anonymous /\ Kind(sf.Type) = "struct"
          THEN helper(sf.Type, path, 0)
          ELSE IF sf.PkgPath = ""
          THEN IF TagName(sf) = <<"-">>
               THEN << >>
               ELSE << [field |-> [path |-> path], name |-> ColNameOf(sf)] >>
          ELSE << >>
    IN here \o helper(t, fieldStack, i + 1)

computeStructFieldNames(t) == helper(t, << >>, 0)

(***************************************************************************)
(* Named resolution: the pure parts.                                       *)
(***************************************************************************)
\* A structRowField whose path is nil.
UnsetField == [path |-> << >>]

isSet(f) == f.path # << >>

\* The loop of fieldPosByName from column index i on.
RECURSIVE fieldPosFrom(_, _, _)
fieldPosFrom(fldDescs, field, i) ==
  IF i >= Len(fldDescs) THEN -1
  ELSE IF EqualFold(StripUnderscores(fldDescs[i + 1]), StripUnderscores(field))
  THEN i
  ELSE fieldPosFrom(fldDescs, field, i + 1)

\* Mutant of fieldPosByName: the names are compared without case folding.
fieldPosByNameExactCase(fldDescs, field) ==
  LET hits == { i \in 1..Len(fldDescs) :
                  StripUnderscores(fldDescs[i]) = StripUnderscores(field) }
  IN IF hits = {} THEN -1
     ELSE (CHOOSE i \in hits : \A j \in hits : i <= j) - 1

\* Mutant of fieldPosByName: the loop does not return at the first match,
\* the last matching column wins.
fieldPosByNameLastMatch(fldDescs, field) ==
  LET hits == { i \in 1..Len(fldDescs) :
                  EqualFold(StripUnderscores(fldDescs[i]), StripUnderscores(field)) }
  IN IF hits = {} THEN -1
     ELSE (CHOOSE i \in hits : \A j \in hits : i >= j) - 1

\* fieldPosByName: the index of the first column that equals the field
\* name once underscores are removed from both and case is folded; -1
\* when there is none.
fieldPosByName(fldDescs, field) == fieldPosFrom(fldDescs, field, 0)

\* Mutant of buildLoop: a field is assigned to every column that matches
\* its name, not only to the first.
RECURSIVE buildLoopEveryMatch(_, _, _)
buildLoopEveryMatch(namedFields, fldDescs, n) ==
  IF n = 0
  THEN [fields |-> [i \in 1..Len(fldDescs) |-> UnsetField], missingField |-> << >>]
  ELSE
    LET prev == buildLoopEveryMatch(namedFields, fldDescs, n - 1)
        f == namedFields[n]
        fpos == fieldPosByName(fldDescs, f.name)
    IN IF fpos = -1
       THEN IF prev.missingField = << >>
            THEN [prev EXCEPT !.missingField = f.name]
            ELSE prev
       ELSE [prev EXCEPT !.fields =
               [i \in 1..Len(fldDescs) |->
                  IF fieldPosByName(<<fldDescs[i]>>, f.name) = 0
                  THEN f.field ELSE prev.fields[i]]]

\* The loop of buildNamedStructRowFieldsEntry over namedFields[1..n]: the
\* fields slice and missingField after n fields.
RECURSIVE buildLoop(_, _, _)
buildLoop(namedFields, fldDescs, n) ==
  IF n = 0
  THEN [fields |-> [i \in 1..Len(fldDescs) |-> UnsetField], missingField |-> << >>]
  ELSE
    LET prev == buildLoop(namedFields, fldDescs, n - 1)
        f == namedFields[n]
        fpos == fieldPosByName(fldDescs, f.name)
    IN IF fpos = -1
       THEN IF prev.missingField = << >>
            THEN [prev EXCEPT !.missingField = f.name]
            ELSE prev
       ELSE [prev EXCEPT !.fields[fpos + 1] = f.field]

\* Mutant of buildNamedStructRowFieldsEntry: the paths are laid out in the
\* order of the table instead of at the positions of their columns.
buildEntryInTableOrder(namedFields, fldDescs) ==
  [cols |-> fldDescs,
   fields |-> [i \in 1..Len(fldDescs) |->
                 IF i <= Len(namedFields) THEN namedFields[i].field ELSE UnsetField],
   missingField |-> buildLoop(namedFields, fldDescs, Len(namedFields)).missingField]

\* buildNamedStructRowFieldsEntry, given the table that
\* lookupNamedStructRowFields returned.
buildNamedStructRowFieldsEntry(namedFields, fldDescs) ==
  LET r == buildLoop(namedFields, fldDescs, Len(namedFields))
  IN [cols |-> fldDescs, fields |-> r.fields, missingField |-> r.missingField]

\* Mutant of colsMatch: the shared hash is taken as proof of equality.
colsMatchTrustsHash(fldDescs, colNames) == Len(colNames) >= 0

\* colsMatch.
colsMatch(fldDescs, colNames) ==
  /\ Len(fldDescs) = Len(colNames)
  /\ \A i \in 1..Len(colNames) : fldDescs[i] = colNames[i]

\* Mutant of findEntry: the first entry of the list is taken unchecked.
findEntryUnchecked(entries, fldDescs, i) == IF Len(entries) >= i THEN i ELSE 0

\* The scan of a collision list: the position of the first entry whose
\* cols match, 0 when none does.
RECURSIVE findEntry(_, _, _)
findEntry(entries, fldDescs, i) ==
  IF i > Len(entries) THEN 0
  ELSE IF colsMatch(fldDescs, entries[i].cols) THEN i
  ELSE findEntry(entries, fldDescs, i + 1)

\* The zero byte hashColNames writes after each name.
ZeroByte == "NUL"

\* The bytes of the names alone, nothing written between them.
RECURSIVE HashStreamUndelimited(_)
HashStreamUndelimited(fldDescs) ==
  IF fldDescs = << >> THEN << >>
  ELSE Head(fldDescs) \o HashStreamUndelimited(Tail(fldDescs))

\* The bytes hashColNames writes to the hasher.
RECURSIVE HashStream(_)
HashStream(fldDescs) ==
  IF fldDescs = << >> THEN << >>
  ELSE Head(fldDescs) \o <<ZeroByte>> \o HashStream(Tail(fldDescs))

(***************************************************************************)
(* Errors.                                                                 *)
(***************************************************************************)
NoErr == [kind |-> "nil", name |-> << >>, got |-> 0, has |-> 0]

\* "struct doesn't have corresponding row field %s"
ErrNoField(col) == [kind |-> "nofield", name |-> col, got |-> 0, has |-> 0]

\* "cannot find field %s in returned row"
ErrMissing(field) == [kind |-> "missing", name |-> field, got |-> 0, has |-> 0]

\* "got %d values, but dst struct has only %d fields"
ErrArity(got, has) == [kind |-> "arity", name |-> << >>, got |-> got, has |-> has]

\* "generic type '%s' is not a struct"
ErrNotStruct == [kind |-> "notstruct", name |-> << >>, got |-> 0, has |-> 0]

\* Mutant of firstUnset: the last position is not looked at.
RECURSIVE firstUnsetSkipsLast(_, _)
firstUnsetSkipsLast(fields, i) ==
  IF i + 1 >= Len(fields) THEN -1
  ELSE IF ~isSet(fields[i + 1]) THEN i
  ELSE firstUnsetSkipsLast(fields, i + 1)

\* The index of the first field of the slice that is not set, -1 when all are.
RECURSIVE firstUnset(_, _)
firstUnset(fields, i) ==
  IF i >= Len(fields) THEN -1
  ELSE IF ~isSet(fields[i + 1]) THEN i
  ELSE firstUnset(fields, i + 1)

\* What GetStructRowFieldsByName returns for a freshly built entry whose
\* fields are not all set (lines 191-201).
unsetResult(newEntry, fldDescs) ==
  [fields |-> << >>, missingField |-> newEntry.missingField,
   err |-> ErrNoField(fldDescs[firstUnset(newEntry.fields, 0) + 1])]

\* What GetStructRowFieldsByName returns for an entry, found or published.
entryResult(e) == [fields |-> e.fields, missingField |-> e.missingField, err |-> NoErr]

\* Mutant of initialize: the lax scanner forgives every error of the
\* resolution.
initializeLaxForgives(lax, res) ==
  IF ~lax /\ res.missingField # << >> THEN ErrMissing(res.missingField)
  ELSE IF ~lax /\ res.err # NoErr THEN res.err
  ELSE NoErr

\* The error namedStructScanner.initialize returns, given what the named
\* resolution returned.
initialize(lax, res) ==
  IF ~lax /\ res.missingField # << >> THEN ErrMissing(res.missingField)
  ELSE IF res.err # NoErr THEN res.err
  ELSE NoErr

\* The arity check of GetStructRowFieldsByPos on the cached fields.
posResult(fields, fldDescs) ==
  IF Len(fields) # Len(fldDescs)
  THEN [fields |-> << >>, missingField |-> << >>,
        err |-> ErrArity(Len(fldDescs), Len(fields))]
  ELSE [fields |-> fields, missingField |-> << >>, err |-> NoErr]

\* The paths of a table, names dropped (GetStructRowFieldsByPos, 118-121).
pathsOf(namedFields) == [i \in 1..Len(namedFields) |-> namedFields[i].field]

(***************************************************************************)
(* The inputs of the model: the calls a goroutine may make.                *)
(***************************************************************************)
ColFirst == <<"f","i","r","s","t">>
ColLast == <<"l","a","s","t">>
ColAge == <<"a","g","e">>
ColAgeUpper == <<"A","G","E">>
ColIgnore == <<"i","g","n","o","r","e">>
ColId == <<"i","d">>

\* The column sequences, in a fixed order (the order numbers the byte
\* streams for the modelled hash sums).
ColSeqList ==
  << <<ColFirst, ColLast, ColAge>>,
     <<ColLast, ColAge>>,
     <<ColLast, ColAge, ColIgnore>>,
     <<ColAge, ColAgeUpper>>,
     <<ColId>> >>

ColSeqs == { ColSeqList[i] : i \in 1..Len(ColSeqList) }

\* The (type, column sequence) pairs that are resolved.
Inputs ==
  { <<"person", ColSeqList[i]>> : i \in 1..4 } \cup { <<"note", ColSeqList[5]>> }

\* Only the number of columns matters to a positional call.
PosInputs ==
  { <<"person", ColSeqList[1]>>, <<"person", ColSeqList[2]>>, <<"note", ColSeqList[5]>> }

\* A call: positional, or by name through the strict or the lax scanner.
Calls ==
  { [op |-> o, typ |-> in[1], cols |-> in[2]] : o \in {"strict", "lax"}, in \in Inputs }
  \cup { [op |-> "pos", typ |-> in[1], cols |-> in[2]] : in \in PosInputs }

Callers == 1..NumCallers

\* The number of a byte stream among those of the column sequences.
StreamIndex(s) == CHOOSE i \in 1..Len(ColSeqList) : HashStream(ColSeqList[i]) = s

\* hash/fnv is not part of the repository: its Sum64 is any one of these
\* functions of the bytes written.  Under the first every two column
\* sequences share a sum, under the second some do and some do not.
HashFns ==
  { [s \in { HashStream(c) : c \in ColSeqs } |-> 0],
    [s \in { HashStream(c) : c \in ColSeqs } |-> StreamIndex(s) % 2] }

(***************************************************************************)
(* State.                                                                  *)
(***************************************************************************)
VARIABLES
  hasher,                   \* hash/fnv: byte stream -> Sum64, fixed in a run
  namedStructRowFieldMap,   \* sync.Map: type -> []namedStructRowField
  structRowFieldsByPosMap,  \* sync.Map: type -> []structRowField
  structRowFieldsByNameMap, \* sync.Map: key -> *[]structRowFieldsByNameEntry
  heap,                     \* the slices the stored pointers point to
  pc,                       \* where each goroutine is in its call
  call,                     \* the call a goroutine is in
  entriesIface,             \* GetStructRowFieldsByName: the pointer last loaded
  entries,                  \* GetStructRowFieldsByName: the entries last read
  newEntry,                 \* GetStructRowFieldsByName: the entry built
  posFields,                \* GetStructRowFieldsByPos: the fields built
  result,                   \* what the call returned
  via,                      \* how the call came to its result
  resolved,                 \* history: the (type, columns) a named call returned nil error
                            \* for since structRowFieldsByNameMap was last emptied
  started,                  \* calls started so far
  resets,                   \* assignments of ClearStructFieldCaches executed so far
  quiet,                    \* history: no call was in flight during any reset
  probe,                    \* the input of a function applied on its own
  answer,                   \* what the function returned for the probe
  rows,                     \* the pgx.Rows handed to a collector
  scanner,                  \* the Scanner handed to a collector
  frame,                    \* the collector call: its locals, its position, what it returned
  mem,                      \* the backing arrays of the slices
  log                       \* history: the calls the collector made on rows and scanner

vars ==
  <<hasher, namedStructRowFieldMap, structRowFieldsByPosMap,
    structRowFieldsByNameMap, heap, pc, call, entriesIface, entries,
    newEntry, posFields, result, via, resolved, started, resets, quiet,
    probe, answer, rows, scanner, frame, mem, log>>

\* The state of a collector call.
collVars == <<rows, scanner, frame, mem, log>>

\* A nil pointer / interface.
NilPtr == [key |-> << >>, ver |-> -1]

NoCall == [op |-> "none", typ |-> "", cols |-> << >>]

NoEntry == [cols |-> << >>, fields |-> << >>, missingField |-> << >>]

NoResult == [fields |-> << >>, missingField |-> << >>, err |-> NoErr]

\* No function is applied on its own.
NoProbe == [fn |-> "none", typ |-> "", cols |-> << >>, field |-> << >>]

NoAnswer == [given |-> FALSE, value |-> << >>]

\* No rows: a MockRows without data, never handed to a collector.
NoRows ==
  [size |-> 0, rowIdx |-> -1, done |-> FALSE, err |-> FALSE, closed |-> FALSE,
   panic |-> FALSE, ends |-> FALSE]

\* A nil slice.
NilSlice == [nil |-> TRUE, arr |-> -1, len |-> 0, cap |-> 0]

\* No collector is called.
NoFrame ==
  [fn |-> "none", pc |-> "idle", slice |-> NilSlice, input |-> NilSlice,
   startingLen |-> 0, startingPtr |-> -1, value |-> 0,
   ret |-> [s |-> NilSlice, value |-> 0, err |-> "nil"]]

NoCollector ==
  /\ rows = NoRows
  /\ scanner = [fails |-> FALSE]
  /\ frame = NoFrame
  /\ mem = << >>
  /\ log = << >>

\* hashColNames.
hashColNames(fldDescs) == hasher[HashStream(fldDescs)]

\* The structRowFieldsByNameKey of a call.
KeyOf(typ, fldDescs) == <<typ, hashColNames(fldDescs)>>

\* A pointer to a newly allocated slice: no pointer in use equals it.
NewPtr(key) ==
  [key |-> key, ver |-> Cardinality({ q \in DOMAIN heap : q.key = key })]

\* The caches are empty and no goroutine has called yet.
InitCaches ==
  /\ hasher \in HashFns
  /\ namedStructRowFieldMap = << >>
  /\ structRowFieldsByPosMap = << >>
  /\ structRowFieldsByNameMap = << >>
  /\ heap = << >>
  /\ pc = [p \in Callers |-> "idle"]
  /\ call = [p \in Callers |-> NoCall]
  /\ entriesIface = [p \in Callers |-> NilPtr]
  /\ entries = [p \in Callers |-> << >>]
  /\ newEntry = [p \in Callers |-> NoEntry]
  /\ result = [p \in Callers |-> NoResult]
  /\ via = [p \in Callers |-> "none"]
  /\ resolved = {}
  /\ posFields = [p \in Callers |-> << >>]
  /\ started = 0
  /\ resets = 0
  /\ quiet = TRUE

Init ==
  /\ InitCaches
  /\ probe = NoProbe
  /\ answer = NoAnswer
  /\ NoCollector

(***************************************************************************)
(* Steps of a goroutine.  A goroutine that has returned from a call (pc is *)
(* "done", the call's result in result) may start its next call.          *)
(***************************************************************************)
\* The call of goroutine p returns res.
Finish(p, c, res, how) ==
  /\ pc' = [pc EXCEPT ![p] = "done"]
  /\ result' = [result EXCEPT ![p] = res]
  /\ via' = [via EXCEPT ![p] = how]
  /\ resolved' = IF c.op # "pos" /\ res.err = NoErr
                 THEN resolved \cup {<<c.typ, c.cols>>}
                 ELSE resolved

\* Goroutine p goes on to program point at.
Goto(p, at) ==
  /\ pc' = [pc EXCEPT ![p] = at]
  /\ UNCHANGED <<result, via, resolved>>

\* Mutant of ScanLoaded: the entry found is returned without its
\* missingField.
ScanLoadedDropsMissing(p, ptr, how, miss) ==
  LET es == heap[ptr]
      i == findEntry(es, call[p].cols, 1)
  IN /\ entriesIface' = [entriesIface EXCEPT ![p] = ptr]
     /\ entries' = [entries EXCEPT ![p] = es]
     /\ IF i > 0
        THEN Finish(p, call[p], [entryResult(es[i]) EXCEPT !.missingField = << >>], how)
        ELSE /\ pc' = [pc EXCEPT ![p] = miss]
             /\ via' = [via EXCEPT ![p] = IF miss = "cas" THEN "retry" ELSE via[p]]
             /\ UNCHANGED <<result, resolved>>

\* Mutant of ScanLoaded: the entries are read anew but the pointer kept for
\* the swap is still the one loaded first.
ScanLoadedKeepsPointer(p, ptr, how, miss) ==
  LET es == heap[ptr]
      i == findEntry(es, call[p].cols, 1)
  IN /\ UNCHANGED entriesIface
     /\ entries' = [entries EXCEPT ![p] = es]
     /\ IF i > 0 THEN Finish(p, call[p], entryResult(es[i]), how)
        ELSE /\ pc' = [pc EXCEPT ![p] = miss]
             /\ via' = [via EXCEPT ![p] = IF miss = "cas" THEN "retry" ELSE via[p]]
             /\ UNCHANGED <<result, resolved>>

\* Lines 183-189 and 218-230: p has loaded ptr; it reads the entries and
\* returns the first that matches its columns, or goes on to miss.
ScanLoaded(p, ptr, how, miss) ==
  LET es == heap[ptr]
      i == findEntry(es, call[p].cols, 1)
  IN /\ entriesIface' = [entriesIface EXCEPT ![p] = ptr]
     /\ entries' = [entries EXCEPT ![p] = es]
     /\ IF i > 0 THEN Finish(p, call[p], entryResult(es[i]), how)
        ELSE /\ pc' = [pc EXCEPT ![p] = miss]
             /\ via' = [via EXCEPT ![p] = IF miss = "cas" THEN "retry" ELSE via[p]]
             /\ UNCHANGED <<result, resolved>>

\* initialize / GetStructRowFieldsByName, lines 170-189: the Load of the key.
NameLoad(p, c) ==
  /\ pc[p] \in {"idle", "done"}
  /\ started < MaxCalls
  /\ c.op \in {"strict", "lax"}
  /\ started' = started + 1
  /\ quiet' = (quiet /\ resets % 3 = 0)
  /\ call' = [call EXCEPT ![p] = c]
  /\ newEntry' = [newEntry EXCEPT ![p] = NoEntry]
  /\ posFields' = [posFields EXCEPT ![p] = << >>]
  /\ LET key == KeyOf(c.typ, c.cols)
     IN IF key \in DOMAIN structRowFieldsByNameMap
        THEN LET es == heap[structRowFieldsByNameMap[key]]
                 i == findEntry(es, c.cols, 1)
             IN /\ entriesIface' =
                     [entriesIface EXCEPT ![p] = structRowFieldsByNameMap[key]]
                /\ entries' = [entries EXCEPT ![p] = es]
                /\ IF i > 0 THEN Finish(p, c, entryResult(es[i]), "warm")
                   ELSE /\ pc' = [pc EXCEPT ![p] = "lookup"]
                        /\ result' = [result EXCEPT ![p] = NoResult]
                        /\ via' = [via EXCEPT ![p] = "none"]
                        /\ UNCHANGED resolved
        ELSE /\ entriesIface' = [entriesIface EXCEPT ![p] = NilPtr]
             /\ entries' = [entries EXCEPT ![p] = << >>]
             /\ pc' = [pc EXCEPT ![p] = "install"]
             /\ result' = [result EXCEPT ![p] = NoResult]
             /\ via' = [via EXCEPT ![p] = "none"]
             /\ UNCHANGED resolved
  /\ UNCHANGED <<collVars, hasher, probe, answer, resets,
                 namedStructRowFieldMap, structRowFieldsByPosMap,
                 structRowFieldsByNameMap, heap>>

\* Mutant of NameInstall: a caller that finds a list stored goes on with
\* the pointer to its own empty list.
NameInstallKeepsOwnBox(p) ==
  /\ pc[p] = "install"
  /\ LET key == KeyOf(call[p].typ, call[p].cols)
         box == NewPtr(key)
     IN /\ heap' = heap @@ (box :> << >>)
        /\ structRowFieldsByNameMap' =
             IF key \in DOMAIN structRowFieldsByNameMap
             THEN structRowFieldsByNameMap
             ELSE structRowFieldsByNameMap @@ (key :> box)
        /\ entriesIface' = [entriesIface EXCEPT ![p] = box]
        /\ UNCHANGED entries
        /\ Goto(p, "lookup")
  /\ UNCHANGED <<collVars, hasher, probe, answer, resets, quiet,
                 namedStructRowFieldMap, structRowFieldsByPosMap,
                 call, newEntry, posFields, started>>

\* Mutant of NameInstall: the pointer to the empty slice is stored under
\* the key whether or not a list is there.
NameInstallStores(p) ==
  /\ pc[p] = "install"
  /\ LET key == KeyOf(call[p].typ, call[p].cols)
         box == NewPtr(key)
     IN /\ heap' = heap @@ (box :> << >>)
        /\ structRowFieldsByNameMap' =
             [k \in DOMAIN structRowFieldsByNameMap \cup {key} |->
                IF k = key THEN box ELSE structRowFieldsByNameMap[k]]
        /\ entriesIface' = [entriesIface EXCEPT ![p] = box]
        /\ UNCHANGED entries
        /\ Goto(p, "lookup")
  /\ UNCHANGED <<collVars, hasher, probe, answer, resets, quiet,
                 namedStructRowFieldMap, structRowFieldsByPosMap,
                 call, newEntry, posFields, started>>

\* Lines 176-189: LoadOrStore of a pointer to an empty slice.
NameInstall(p) ==
  /\ pc[p] = "install"
  /\ LET key == KeyOf(call[p].typ, call[p].cols)
     IN IF key \in DOMAIN structRowFieldsByNameMap
        THEN /\ ScanLoaded(p, structRowFieldsByNameMap[key], "warm", "lookup")
             /\ UNCHANGED <<structRowFieldsByNameMap, heap>>
        ELSE LET box == NewPtr(key)
             IN /\ heap' = heap @@ (box :> << >>)
                /\ structRowFieldsByNameMap' = structRowFieldsByNameMap @@ (key :> box)
                /\ entriesIface' = [entriesIface EXCEPT ![p] = box]
                /\ UNCHANGED entries
                /\ Goto(p, "lookup")
  /\ UNCHANGED <<collVars, hasher, probe, answer, resets, quiet,
                 namedStructRowFieldMap, structRowFieldsByPosMap,
                 call, newEntry, posFields, started>>

\* Mutant of WithTable: a built entry with unset fields is cached like any
\* other instead of being returned as an error.
WithTableCachesFailure(p, namedFields) ==
  IF call[p].op = "pos"
  THEN /\ posFields' = [posFields EXCEPT ![p] = pathsOf(namedFields)]
       /\ Goto(p, "posstore")
       /\ UNCHANGED newEntry
  ELSE /\ newEntry' = [newEntry EXCEPT ![p] =
                         buildNamedStructRowFieldsEntry(namedFields, call[p].cols)]
       /\ UNCHANGED posFields
       /\ Goto(p, "cas")

\* Mutant of WithTable: an entry with a missing field is returned but not
\* published.
WithTableSkipsMissing(p, namedFields) ==
  IF call[p].op = "pos"
  THEN /\ posFields' = [posFields EXCEPT ![p] = pathsOf(namedFields)]
       /\ Goto(p, "posstore")
       /\ UNCHANGED newEntry
  ELSE \E e \in {buildNamedStructRowFieldsEntry(namedFields, call[p].cols)} :
          /\ newEntry' = [newEntry EXCEPT ![p] = e]
          /\ UNCHANGED posFields
          /\ IF firstUnset(e.fields, 0) # -1
             THEN Finish(p, call[p], unsetResult(e, call[p].cols), "failed")
             ELSE IF e.missingField # << >>
             THEN Finish(p, call[p], entryResult(e), "failed")
             ELSE Goto(p, "cas")

\* What p does with the table lookupNamedStructRowFields returned: the
\* rest of buildNamedStructRowFieldsEntry and lines 190-201 for a named
\* call, lines 118-121 for a positional one.
WithTable(p, namedFields) ==
  IF call[p].op = "pos"
  THEN /\ posFields' = [posFields EXCEPT ![p] = pathsOf(namedFields)]
       /\ Goto(p, "posstore")
       /\ UNCHANGED newEntry
  ELSE \E e \in {buildNamedStructRowFieldsEntry(namedFields, call[p].cols)} :
          /\ newEntry' = [newEntry EXCEPT ![p] = e]
          /\ UNCHANGED posFields
          /\ IF firstUnset(e.fields, 0) # -1
             THEN Finish(p, call[p], unsetResult(e, call[p].cols), "failed")
             ELSE Goto(p, "cas")

\* lookupNamedStructRowFields, line 59: the Load of the type's table.
TableLoad(p) ==
  /\ pc[p] = "lookup"
  /\ IF call[p].typ \in DOMAIN namedStructRowFieldMap
     THEN WithTable(p, namedStructRowFieldMap[call[p].typ])
     ELSE /\ Goto(p, "compute")
          /\ UNCHANGED <<newEntry, posFields>>
  /\ UNCHANGED <<collVars, hasher, probe, answer, resets, quiet,
                 namedStructRowFieldMap, structRowFieldsByPosMap,
                 structRowFieldsByNameMap, heap, call, entriesIface, entries,
                 started>>

\* Mutant of TableStore: the table computed is used and not stored.
TableStoreForgets(p) ==
  /\ pc[p] = "compute"
  /\ \E actual \in {computeStructFieldNames(call[p].typ)} :
        /\ UNCHANGED namedStructRowFieldMap
        /\ WithTable(p, actual)
  /\ UNCHANGED <<collVars, hasher, probe, answer, resets, quiet,
                 structRowFieldsByPosMap, structRowFieldsByNameMap,
                 heap, call, entriesIface, entries, started>>

\* lookupNamedStructRowFields, lines 62-64: compute the table and
\* LoadOrStore it; the table in the map is the one returned.
TableStore(p) ==
  /\ pc[p] = "compute"
  /\ \E t \in {call[p].typ} :
     \E actual \in {IF t \in DOMAIN namedStructRowFieldMap
                    THEN namedStructRowFieldMap[t]
                    ELSE computeStructFieldNames(t)} :
        /\ namedStructRowFieldMap' =
             IF t \in DOMAIN namedStructRowFieldMap
             THEN namedStructRowFieldMap
             ELSE namedStructRowFieldMap @@ (t :> actual)
        /\ WithTable(p, actual)
  /\ UNCHANGED <<collVars, hasher, probe, answer, resets, quiet,
                 structRowFieldsByPosMap, structRowFieldsByNameMap,
                 heap, call, entriesIface, entries, started>>

\* Mutant of NameCas: the new slice is stored without comparing the
\* pointer under the key with the one loaded.
NameCasStores(p) ==
  /\ pc[p] = "cas"
  /\ LET key == KeyOf(call[p].typ, call[p].cols)
         newEntries == NewPtr(key)
     IN /\ heap' = heap @@ (newEntries :> (<<newEntry[p]>> \o entries[p]))
        /\ structRowFieldsByNameMap' =
             [structRowFieldsByNameMap EXCEPT ![key] = newEntries]
        /\ Finish(p, call[p], entryResult(newEntry[p]),
                          IF via[p] = "retry" THEN "republished" ELSE "published")
  /\ UNCHANGED <<collVars, hasher, probe, answer, resets, quiet,
                 namedStructRowFieldMap, structRowFieldsByPosMap,
                 call, entriesIface, entries, newEntry, posFields, started>>

\* Mutant of NameCas: the new entry is put into the slice the map points
\* to, in place, instead of into a new slice that is swapped in.
NameCasInPlace(p) ==
  /\ pc[p] = "cas"
  /\ LET key == KeyOf(call[p].typ, call[p].cols)
     IN IF /\ key \in DOMAIN structRowFieldsByNameMap
           /\ structRowFieldsByNameMap[key] = entriesIface[p]
        THEN /\ heap' = [heap EXCEPT ![entriesIface[p]] = <<newEntry[p]>> \o @]
             /\ UNCHANGED structRowFieldsByNameMap
             /\ Finish(p, call[p], entryResult(newEntry[p]),
                       IF via[p] = "retry" THEN "republished" ELSE "published")
        ELSE /\ Goto(p, "reload")
             /\ UNCHANGED <<heap, structRowFieldsByNameMap>>
  /\ UNCHANGED <<collVars, hasher, probe, answer, resets, quiet,
                 namedStructRowFieldMap, structRowFieldsByPosMap,
                 call, entriesIface, entries, newEntry, posFields, started>>

\* Mutant of NameCas: the new entry is put behind the entries read, not
\* before them.
NameCasAppends(p) ==
  /\ pc[p] = "cas"
  /\ LET key == KeyOf(call[p].typ, call[p].cols)
     IN IF /\ key \in DOMAIN structRowFieldsByNameMap
           /\ structRowFieldsByNameMap[key] = entriesIface[p]
        THEN LET newEntries == NewPtr(key)
             IN /\ heap' = heap @@ (newEntries :> (entries[p] \o <<newEntry[p]>>))
                /\ structRowFieldsByNameMap' =
                     [structRowFieldsByNameMap EXCEPT ![key] = newEntries]
                /\ Finish(p, call[p], entryResult(newEntry[p]),
                          IF via[p] = "retry" THEN "republished" ELSE "published")
        ELSE /\ Goto(p, "reload")
             /\ UNCHANGED <<heap, structRowFieldsByNameMap>>
  /\ UNCHANGED <<collVars, hasher, probe, answer, resets, quiet,
                 namedStructRowFieldMap, structRowFieldsByPosMap,
                 call, entriesIface, entries, newEntry, posFields, started>>

\* Lines 206-216: the compare-and-swap of the pointer under the key.
NameCas(p) ==
  /\ pc[p] = "cas"
  /\ LET key == KeyOf(call[p].typ, call[p].cols)
     IN IF /\ key \in DOMAIN structRowFieldsByNameMap
           /\ structRowFieldsByNameMap[key] = entriesIface[p]
        THEN LET newEntries == NewPtr(key)
             IN /\ heap' = heap @@ (newEntries :> (<<newEntry[p]>> \o entries[p]))
                /\ structRowFieldsByNameMap' =
                     [structRowFieldsByNameMap EXCEPT ![key] = newEntries]
                /\ Finish(p, call[p], entryResult(newEntry[p]),
                          IF via[p] = "retry" THEN "republished" ELSE "published")
        ELSE /\ Goto(p, "reload")
             /\ UNCHANGED <<heap, structRowFieldsByNameMap>>
  /\ UNCHANGED <<collVars, hasher, probe, answer, resets, quiet,
                 namedStructRowFieldMap, structRowFieldsByPosMap,
                 call, entriesIface, entries, newEntry, posFields, started>>

\* Mutant of NameReload: the entries loaded after a failed swap are not
\* scanned for the caller's columns before the swap is tried again.
NameReloadNoScan(p) ==
  /\ pc[p] = "reload"
  /\ LET key == KeyOf(call[p].typ, call[p].cols)
     IN /\ key \in DOMAIN structRowFieldsByNameMap
        /\ entriesIface' = [entriesIface EXCEPT ![p] = structRowFieldsByNameMap[key]]
        /\ entries' = [entries EXCEPT ![p] = heap[structRowFieldsByNameMap[key]]]
        /\ pc' = [pc EXCEPT ![p] = "cas"]
        /\ via' = [via EXCEPT ![p] = "retry"]
        /\ UNCHANGED <<result, resolved>>
  /\ UNCHANGED <<collVars, hasher, probe, answer, resets, quiet,
                 namedStructRowFieldMap, structRowFieldsByPosMap,
                 structRowFieldsByNameMap, heap, call, newEntry, posFields,
                 started>>

\* Mutant of NameReload: without a pointer under the key the caller goes
\* back to install one instead of asserting the type of nil.
NameReloadReinstalls(p) ==
  /\ pc[p] = "reload"
  /\ LET key == KeyOf(call[p].typ, call[p].cols)
     IN IF key \in DOMAIN structRowFieldsByNameMap
        THEN ScanLoaded(p, structRowFieldsByNameMap[key], "reloaded", "cas")
        ELSE /\ pc' = [pc EXCEPT ![p] = "install"]
             /\ UNCHANGED <<entriesIface, entries, result, via, resolved>>
  /\ UNCHANGED <<collVars, hasher, probe, answer, resets, quiet,
                 namedStructRowFieldMap, structRowFieldsByPosMap,
                 structRowFieldsByNameMap, heap, call, newEntry, posFields,
                 started>>

\* Lines 217-230: after a failed swap, load the pointer again and scan.
\* Without a pointer under the key the type assertion on nil panics.
NameReload(p) ==
  /\ pc[p] = "reload"
  /\ LET key == KeyOf(call[p].typ, call[p].cols)
     IN IF key \in DOMAIN structRowFieldsByNameMap
        THEN ScanLoaded(p, structRowFieldsByNameMap[key], "reloaded", "cas")
        ELSE /\ pc' = [pc EXCEPT ![p] = "panic"]
             /\ UNCHANGED <<entriesIface, entries, result, via, resolved>>
  /\ UNCHANGED <<collVars, hasher, probe, answer, resets, quiet,
                 namedStructRowFieldMap, structRowFieldsByPosMap,
                 structRowFieldsByNameMap, heap, call, newEntry, posFields,
                 started>>

\* Mutant of PosLoad: fields found in the cache are returned without the
\* check of their number against the columns.
PosLoadTrustsCache(p, c) ==
  /\ pc[p] \in {"idle", "done"}
  /\ started < MaxCalls
  /\ c.op = "pos"
  /\ started' = started + 1
  /\ quiet' = (quiet /\ resets % 3 = 0)
  /\ call' = [call EXCEPT ![p] = c]
  /\ entriesIface' = [entriesIface EXCEPT ![p] = NilPtr]
  /\ entries' = [entries EXCEPT ![p] = << >>]
  /\ newEntry' = [newEntry EXCEPT ![p] = NoEntry]
  /\ posFields' = [posFields EXCEPT ![p] = << >>]
  /\ IF c.typ \in DOMAIN structRowFieldsByPosMap
     THEN Finish(p, c, [fields |-> structRowFieldsByPosMap[c.typ],
                        missingField |-> << >>, err |-> NoErr], "warm")
     ELSE /\ pc' = [pc EXCEPT ![p] = "lookup"]
          /\ result' = [result EXCEPT ![p] = NoResult]
          /\ via' = [via EXCEPT ![p] = "none"]
          /\ UNCHANGED resolved
  /\ UNCHANGED <<collVars, hasher, probe, answer, resets,
                 namedStructRowFieldMap, structRowFieldsByPosMap,
                 structRowFieldsByNameMap, heap>>

\* GetStructRowFieldsByPos, lines 115-133: the Load of the type's fields.
PosLoad(p, c) ==
  /\ pc[p] \in {"idle", "done"}
  /\ started < MaxCalls
  /\ c.op = "pos"
  /\ started' = started + 1
  /\ quiet' = (quiet /\ resets % 3 = 0)
  /\ call' = [call EXCEPT ![p] = c]
  /\ entriesIface' = [entriesIface EXCEPT ![p] = NilPtr]
  /\ entries' = [entries EXCEPT ![p] = << >>]
  /\ newEntry' = [newEntry EXCEPT ![p] = NoEntry]
  /\ posFields' = [posFields EXCEPT ![p] = << >>]
  /\ IF c.typ \in DOMAIN structRowFieldsByPosMap
     THEN Finish(p, c, posResult(structRowFieldsByPosMap[c.typ], c.cols), "warm")
     ELSE /\ pc' = [pc EXCEPT ![p] = "lookup"]
          /\ result' = [result EXCEPT ![p] = NoResult]
          /\ via' = [via EXCEPT ![p] = "none"]
          /\ UNCHANGED resolved
  /\ UNCHANGED <<collVars, hasher, probe, answer, resets,
                 namedStructRowFieldMap, structRowFieldsByPosMap,
                 structRowFieldsByNameMap, heap>>

\* GetStructRowFieldsByPos, lines 122-132: LoadOrStore of the fields built.
PosStore(p) ==
  /\ pc[p] = "posstore"
  /\ LET t == call[p].typ
         actual == IF t \in DOMAIN structRowFieldsByPosMap
                   THEN structRowFieldsByPosMap[t]
                   ELSE posFields[p]
     IN /\ structRowFieldsByPosMap' =
             IF t \in DOMAIN structRowFieldsByPosMap
             THEN structRowFieldsByPosMap
             ELSE structRowFieldsByPosMap @@ (t :> actual)
        /\ Finish(p, call[p], posResult(actual, call[p].cols), "built")
  /\ UNCHANGED <<collVars, hasher, probe, answer, resets, quiet,
                 namedStructRowFieldMap, structRowFieldsByNameMap,
                 heap, call, entriesIface, entries, newEntry, posFields,
                 started>>

Next ==
  \E p \in Callers :
    \/ \E c \in Calls : NameLoad(p, c)
    \/ NameInstall(p)
    \/ TableLoad(p)
    \/ TableStore(p)
    \/ NameCas(p)
    \/ NameReload(p)
    \/ \E c \in Calls : PosLoad(p, c)
    \/ PosStore(p)

Spec == Init /\ [][Next]_vars

\* A step of goroutine p inside a call it has started.
CallerStep(p) ==
  \/ NameInstall(p)
  \/ TableLoad(p)
  \/ TableStore(p)
  \/ NameCas(p)
  \/ NameReload(p)
  \/ PosStore(p)

\* The Go scheduler: a goroutine that can take a step of its call takes it
\* in the end.
FairSpec == Spec /\ \A p \in Callers : WF_vars(CallerStep(p))

(***************************************************************************)
(* ClearStructFieldCaches.  The function assigns an empty sync.Map to each *)
(* of the three caches in turn and takes no lock: goroutines inside a      *)
(* resolver may run between two of its assignments.  resets counts the     *)
(* assignments executed, three to a call.                                  *)
(***************************************************************************)
\* Calls of ClearStructFieldCaches in a run.
MaxResets == 1

\* No goroutine is inside a resolver.
NoneInFlight == \A p \in Callers : pc[p] \in {"idle", "done", "panic"}

\* Line 316: namedStructRowFieldMap = sync.Map{}.
ClearNamedStructRowFieldMap ==
  /\ resets % 3 = 0
  /\ resets < 3 * MaxResets
  /\ namedStructRowFieldMap' = << >>
  /\ resets' = resets + 1
  /\ quiet' = (quiet /\ NoneInFlight)
  /\ UNCHANGED <<collVars, hasher, probe, answer, structRowFieldsByPosMap,
                 structRowFieldsByNameMap, heap, pc, call, entriesIface,
                 entries, newEntry, posFields, result, via, resolved, started>>

\* Line 317: structRowFieldsByPosMap = sync.Map{}.
ClearStructRowFieldsByPosMap ==
  /\ resets % 3 = 1
  /\ structRowFieldsByPosMap' = << >>
  /\ resets' = resets + 1
  /\ quiet' = (quiet /\ NoneInFlight)
  /\ UNCHANGED <<collVars, hasher, probe, answer, namedStructRowFieldMap,
                 structRowFieldsByNameMap, heap, pc, call, entriesIface,
                 entries, newEntry, posFields, result, via, resolved, started>>

\* Mutant of ClearStructRowFieldsByNameMap: the cache of collision lists
\* is left as it is.
ClearKeepsStructRowFieldsByNameMap ==
  /\ resets % 3 = 2
  /\ resets' = resets + 1
  /\ quiet' = (quiet /\ NoneInFlight)
  /\ UNCHANGED <<collVars, hasher, probe, answer, namedStructRowFieldMap,
                 structRowFieldsByPosMap, structRowFieldsByNameMap, heap, pc,
                 call, entriesIface, entries, newEntry, posFields, result,
                 via, resolved, started>>

\* Line 318: structRowFieldsByNameMap = sync.Map{}.  The slices the old
\* map pointed to stay where they are: a goroutine may still hold a
\* pointer to one.
ClearStructRowFieldsByNameMap ==
  /\ resets % 3 = 2
  /\ structRowFieldsByNameMap' = << >>
  /\ resolved' = {}
  /\ resets' = resets + 1
  /\ quiet' = (quiet /\ NoneInFlight)
  /\ UNCHANGED <<collVars, hasher, probe, answer, namedStructRowFieldMap,
                 structRowFieldsByPosMap, heap, pc, call, entriesIface,
                 entries, newEntry, posFields, result, via, started>>

\* A step of ClearStructFieldCaches.
ClearStructFieldCaches ==
  \/ ClearNamedStructRowFieldMap
  \/ ClearStructRowFieldsByPosMap
  \/ ClearStructRowFieldsByNameMap

\* A call of ClearStructFieldCaches has returned and none is under way.
ResetDone == resets > 0 /\ resets % 3 = 0

\* The resolvers together with the reset.
ResetNext == Next \/ ClearStructFieldCaches

ResetSpec == Init /\ [][ResetNext]_vars

\* CollidingFieldSets, lines 321-342: nil without a list under the key,
\* else the columns of every entry of the list.
CollidingFieldSets(typ, fields) ==
  LET key == KeyOf(typ, fields)
  IN IF key \notin DOMAIN structRowFieldsByNameMap
     THEN [isNil |-> TRUE, fieldSets |-> << >>]
     ELSE LET es == heap[structRowFieldsByNameMap[key]]
          IN [isNil |-> FALSE,
              fieldSets |-> [i \in 1..Len(es) |-> es[i].cols]]

(***************************************************************************)
(* What the claims speak of.                                               *)
(***************************************************************************)
\* Goroutine p has returned from a call by name.
NamedDone(p) == pc[p] = "done" /\ call[p].op \in {"strict", "lax"}

\* The call of p returned the entry it built and published itself, at its
\* first swap or after swaps that failed.
Published(p) == via[p] \in {"published", "republished"}

\* Goroutine p has returned from a positional call.
PosDone(p) == pc[p] = "done" /\ call[p].op = "pos"

\* The collision list stored under a key now; empty when there is none.
ListUnder(key) ==
  IF key \in DOMAIN structRowFieldsByNameMap
  THEN heap[structRowFieldsByNameMap[key]]
  ELSE << >>

\* The collision list of (typ, cols)'s key holds an entry with exactly cols.
HasEntry(typ, cols) ==
  LET es == ListUnder(KeyOf(typ, cols))
  IN \E i \in 1..Len(es) : es[i].cols = cols

\* What a named resolution returns on a cache that was never used.
FreshResult(typ, cols) ==
  LET e == buildNamedStructRowFieldsEntry(computeStructFieldNames(typ), cols)
  IN IF firstUnset(e.fields, 0) # -1 THEN unsetResult(e, cols) ELSE entryResult(e)

\* FreshResult of every input.
Fresh == [in \in Inputs |-> FreshResult(in[1], in[2])]

\* The eligible fields of every type, with their column names.
EligibleFields == [t \in StructTypes |-> computeStructFieldNames(t)]

\* The error the scanner's Initialize returned to goroutine p.
InitErr(p) ==
  IF call[p].op = "pos" THEN result[p].err
  ELSE initialize(call[p].op = "lax", result[p])

(***************************************************************************)
(* C1.  A lookup never returns the fields of an entry stored for another   *)
(* column sequence, whatever the hash: the entry a named call returns,     *)
(* found in the list it loaded or published by itself, holds exactly the   *)
(* call's columns, and a call served from the cache found that entry in    *)
(* the list it scanned.                                                    *)
(***************************************************************************)
C1_ExactSequenceOnly ==
  \A p \in Callers :
    (NamedDone(p) /\ result[p].err = NoErr) =>
      /\ via[p] \in {"warm", "reloaded", "published", "republished"}
      /\ Published(p) =>
           /\ newEntry[p].cols = call[p].cols
           /\ result[p] = entryResult(newEntry[p])
      /\ via[p] \in {"warm", "reloaded"} =>
           \E i \in 1..Len(entries[p]) :
              /\ entries[p][i].cols = call[p].cols
              /\ result[p] = entryResult(entries[p][i])

\* Two sequences share a key: the caller scanned a list holding the other
\* sequence's entry, did not take it, and both are in the list, each with
\* its own fields.
C1_Witness ==
  \E p \in Callers :
    /\ NamedDone(p) /\ Published(p)
    /\ \E i \in 1..Len(entries[p]) :
         /\ entries[p][i].cols # call[p].cols
         /\ entries[p][i].fields # result[p].fields
    /\ Len(ListUnder(KeyOf(call[p].typ, call[p].cols))) = 2

(***************************************************************************)
(* C2.  Callers racing on the same (type, column sequence) all return the  *)
(* same field paths and the same missing-field name, whichever of them     *)
(* published the entry.                                                    *)
(***************************************************************************)
C2_RacersAgree ==
  \A p, q \in Callers :
    (/\ NamedDone(p) /\ NamedDone(q)
     /\ call[p].typ = call[q].typ /\ call[p].cols = call[q].cols) =>
      /\ result[p].fields = result[q].fields
      /\ result[p].missingField = result[q].missingField
      /\ result[p].err = result[q].err

\* Two callers raced on one key of the empty cache: one published, the
\* other lost the swap and found the winner's entry (missing field and all).
C2_Witness ==
  \E p, q \in Callers :
    /\ NamedDone(p) /\ NamedDone(q)
    /\ call[p].typ = call[q].typ /\ call[p].cols = call[q].cols
    /\ via[p] = "published" /\ via[q] = "reloaded"
    /\ result[p].missingField # << >>

(***************************************************************************)
(* C3.  No entry is lost: for every (type, columns) a named call has       *)
(* returned success for, the list under its key holds an entry with        *)
(* exactly those columns, in every later state.                            *)
(***************************************************************************)
C3_NoEntryLost ==
  \A r \in resolved : HasEntry(r[1], r[2])

\* An entry survived the publication of another sequence under its key.
C3_Witness ==
  \E r \in resolved :
    LET es == ListUnder(KeyOf(r[1], r[2]))
    IN /\ Len(es) = 2
       /\ es[2].cols = r[2]
       /\ es[1].cols # r[2]

(***************************************************************************)
(* C4.  No collision list holds two entries with the same columns, and the *)
(* list under a key has exactly one entry per successfully resolved        *)
(* sequence of that key.                                                   *)
(***************************************************************************)
C4_OneEntryPerSequence ==
  \A key \in DOMAIN structRowFieldsByNameMap :
    LET es == ListUnder(key)
    IN /\ \A i, j \in 1..Len(es) : es[i].cols = es[j].cols => i = j
       /\ Len(es) = Cardinality({ r \in resolved : KeyOf(r[1], r[2]) = key })

\* Two callers raced with two sequences of one key: the loser of the swap
\* loaded the winner's list, found no entry of its own and published on
\* top of it.  The list holds the two entries.
C4_Witness ==
  \E key \in DOMAIN structRowFieldsByNameMap :
    /\ Len(ListUnder(key)) = 2
    /\ \E p, q \in Callers :
         /\ NamedDone(p) /\ via[p] = "republished"
         /\ NamedDone(q) /\ via[q] = "published"
         /\ KeyOf(call[p].typ, call[p].cols) = key
         /\ KeyOf(call[q].typ, call[q].cols) = key

(***************************************************************************)
(* C5.  Named resolution is idempotent and independent of the cache's      *)
(* history: whatever path served the call, it returns what a resolution on *)
(* a cache never used returns.                                             *)
(***************************************************************************)
C5_IndependentOfHistory ==
  \A p \in Callers :
    NamedDone(p) => result[p] = Fresh[<<call[p].typ, call[p].cols>>]

\* The same input was served once by a fresh build and once from the
\* cache.
C5_Witness ==
  \E p, q \in Callers :
    /\ NamedDone(p) /\ NamedDone(q)
    /\ call[p].typ = call[q].typ /\ call[p].cols = call[q].cols
    /\ via[p] = "published" /\ via[q] = "warm"

(***************************************************************************)
(* Matching of columns and declared fields, as the claims speak of it.     *)
(***************************************************************************)
\* Two names are equal once underscores are removed and case is folded.
NameEq(a, b) == EqualFold(StripUnderscores(a), StripUnderscores(b))

\* Column i (from 1) has a corresponding field: some eligible field of the
\* type is assigned to its position, that is, the column is the first one
\* whose name equals the field's column name.
ColumnHasField(typ, cols, i) ==
  \E k \in 1..Len(EligibleFields[typ]) :
    /\ NameEq(EligibleFields[typ][k].name, cols[i])
    /\ \A j \in 1..(i - 1) : ~NameEq(EligibleFields[typ][k].name, cols[j])

\* Eligible field k (from 1) of the type has a corresponding column.
FieldHasColumn(typ, cols, k) ==
  \E i \in 1..Len(cols) : NameEq(EligibleFields[typ][k].name, cols[i])

\* The inputs whose every column has a corresponding field.
ColumnsMatched ==
  { in \in Inputs : \A i \in 1..Len(in[2]) : ColumnHasField(in[1], in[2], i) }

\* The inputs whose type's every eligible field has a corresponding column.
FieldsMatched ==
  { in \in Inputs :
      \A k \in 1..Len(EligibleFields[in[1]]) : FieldHasColumn(in[1], in[2], k) }

\* The inputs with an eligible field that has no column, with the paths of
\* those fields.
UnmatchedPaths ==
  [in \in Inputs |->
     { EligibleFields[in[1]][k].field :
         k \in { k \in 1..Len(EligibleFields[in[1]]) :
                   ~FieldHasColumn(in[1], in[2], k) } }]

AllColumnsMatch(typ, cols) == <<typ, cols>> \in ColumnsMatched

AllFieldsMatch(typ, cols) == <<typ, cols>> \in FieldsMatched

\* Some list of the type holds an entry with exactly cols.
CachedAnywhere(typ, cols) ==
  \E key \in DOMAIN structRowFieldsByNameMap :
    /\ key[1] = typ
    /\ LET es == heap[structRowFieldsByNameMap[key]]
       IN \E i \in 1..Len(es) : es[i].cols = cols

(***************************************************************************)
(* C6.  In strict mode a named resolution succeeds iff every column has a  *)
(* corresponding declared field and every declared field has a             *)
(* corresponding column.                                                   *)
(***************************************************************************)
C6_StrictIffAllMatch ==
  \A p \in Callers :
    (pc[p] = "done" /\ call[p].op = "strict") =>
      (InitErr(p) = NoErr <=>
         (AllColumnsMatch(call[p].typ, call[p].cols)
            /\ AllFieldsMatch(call[p].typ, call[p].cols)))

C8_UnmatchedColumnNotCached ==
  /\ \A in \in Inputs :
       ~AllColumnsMatch(in[1], in[2]) => ~CachedAnywhere(in[1], in[2])
  /\ \A p \in Callers :
       (NamedDone(p) /\ ~AllColumnsMatch(call[p].typ, call[p].cols)) =>
         /\ via[p] = "failed"
         /\ result[p].err.kind = "nofield"
         /\ result[p] = Fresh[<<call[p].typ, call[p].cols>>]

\* The same failing sequence was resolved twice: both calls went through
\* the build, and the list installed under the key is still empty.
C8_Witness ==
  \E p, q \in Callers :
    /\ p # q
    /\ NamedDone(p) /\ NamedDone(q)
    /\ call[p].typ = call[q].typ /\ call[p].cols = call[q].cols
    /\ via[p] = "failed" /\ via[q] = "failed"
    /\ result[p].err.kind = "nofield"
    /\ KeyOf(call[p].typ, call[p].cols) \in DOMAIN structRowFieldsByNameMap
    /\ ListUnder(KeyOf(call[p].typ, call[p].cols)) = << >>

(***************************************************************************)
(* C9, as stated.  A strict resolution that fails because a declared field *)
(* matched no column is not cached: after the failure the list of the key  *)
(* holds no entry for the column sequence.                                 *)
(***************************************************************************)
C9_MissingFieldNotCached ==
  \A p \in Callers :
    (pc[p] = "done" /\ call[p].op = "strict" /\ InitErr(p).kind = "missing") =>
      ~HasEntry(call[p].typ, call[p].cols)

(***************************************************************************)
(* C9, amended.  A strict resolution that fails because a declared field   *)
(* matched no column is cached exactly when every column has a field: the  *)
(* list of the key then holds the entry of the column sequence, with the   *)
(* missing field's name, and the call was served from a list or published  *)
(* the entry; when a column has no field either, nothing is cached and the *)
(* call went through the build.                                            *)
(***************************************************************************)
C9_MissingFieldCachedIffColumnsMatch ==
  \A p \in Callers :
    (pc[p] = "done" /\ call[p].op = "strict" /\ InitErr(p).kind = "missing") =>
      IF AllColumnsMatch(call[p].typ, call[p].cols)
      THEN /\ via[p] \in {"warm", "reloaded", "published", "republished"}
           /\ LET es == ListUnder(KeyOf(call[p].typ, call[p].cols))
              IN \E i \in 1..Len(es) :
                   /\ es[i].cols = call[p].cols
                   /\ es[i].missingField = InitErr(p).name
      ELSE /\ via[p] = "failed"
           /\ ~HasEntry(call[p].typ, call[p].cols)

\* A strict call failed on a missing field and published the entry; the
\* retry was served from the cache and failed with the same error.
C9_Witness ==
  \E p, q \in Callers :
    /\ pc[p] = "done" /\ call[p].op = "strict" /\ InitErr(p).kind = "missing"
    /\ pc[q] = "done" /\ call[q] = call[p]
    /\ via[p] = "published" /\ via[q] = "warm"
    /\ InitErr(q) = InitErr(p)

(***************************************************************************)
(* C10.  Positional resolution succeeds iff the type has as many eligible  *)
(* fields as there are columns, whatever calls came before; on a mismatch  *)
(* the error carries the two counts.                                       *)
(***************************************************************************)
C10_PosIffCountsEqual ==
  \A p \in Callers :
    PosDone(p) =>
      LET n == Len(EligibleFields[call[p].typ])
      IN IF n = Len(call[p].cols)
         THEN /\ result[p].err = NoErr
              /\ result[p].fields = pathsOf(EligibleFields[call[p].typ])
         ELSE /\ result[p].err = ErrArity(Len(call[p].cols), n)
              /\ result[p].fields = << >>

\* After a success for three columns, a call with two columns for the same
\* type found the fields in the cache and still failed.
C10_Witness ==
  \E p, q \in Callers :
    /\ PosDone(p) /\ PosDone(q)
    /\ call[p].typ = call[q].typ
    /\ result[q].err = NoErr /\ via[q] = "built"
    /\ via[p] = "warm" /\ result[p].err.kind = "arity"
    /\ result[p].err.got = 2 /\ result[p].err.has = 3

(***************************************************************************)
(* The pure functions applied on their own: a probe is drawn, the function *)
(* is applied to it, the answer is kept.                                   *)
(***************************************************************************)
NameSnake == <<"f","i","r","s","t","_","n","a","m","e">>
NameCamel == <<"F","i","r","s","t","N","a","m","e">>
NameDash == <<"f","i","r","s","t","-","n","a","m","e">>
NameUpper == <<"F","I","R","S","T","_","N","A","M","E">>
NameEdges == <<"_","f","i","r","s","t","_","_","n","a","m","e","_">>

\* The names columns and fields take in the probes of fieldPosByName.
ProbeNames == {NameSnake, NameCamel, NameDash, NameUpper, NameEdges, ColLast}

\* Longest column list of a probe of fieldPosByName.
MaxProbeCols == 2

\* The column lists of the probes: every list of at most MaxProbeCols names.
ProbeColSeqs == UNION { [1..n -> ProbeNames] : n \in 0..MaxProbeCols }

FieldPosProbes ==
  { [fn |-> "fieldPosByName", typ |-> "", cols |-> cs, field |-> f] :
      cs \in ProbeColSeqs, f \in ProbeNames }

\* Every record type, for computeStructFieldNames.
TableProbes ==
  { [fn |-> "computeStructFieldNames", typ |-> t, cols |-> << >>, field |-> << >>] :
      t \in StructTypes }

\* The column lists of the probes of the named resolution: every list of
\* at most MaxProbeCols of these columns.
EntryProbeColSeqs ==
  UNION { [1..n -> {ColId, ColAge, ColLast, ColIgnore}] : n \in 0..MaxProbeCols }

\* Every record type with every such list, for the scanner's initialize.
EntryProbes ==
  { [fn |-> "initialize", typ |-> t, cols |-> cs, field |-> << >>] :
      t \in StructTypes, cs \in EntryProbeColSeqs }

\* The column names of the probes of hashColNames: short names over two
\* letters, the empty name, and one name that holds a zero byte.
HashNames ==
  { << >>, <<"a">>, <<"b">>, <<"a","a">>, <<"a","b">>, <<"b","a">>,
    <<"a", ZeroByte>> }

\* The column lists of the probes of hashColNames.
HashColSeqs == UNION { [1..n -> HashNames] : n \in 0..MaxProbeCols }

HashProbes ==
  { [fn |-> "hashColNames", typ |-> "", cols |-> cs, field |-> << >>] :
      cs \in HashColSeqs }

\* The receivers a scanner is handed: the zero value of the type, whose
\* embedded pointers are nil, and a value whose embedded pointers are set.
RecvZero == <<"zero">>
RecvFilled == <<"filled">>

\* reflect.Value.FieldByIndex from a value of type t on, index being what
\* is left of the path and first telling whether its first element is
\* the first of the path.  A pointer to a struct met after the first
\* element is dereferenced, with a panic when it is nil; Field panics on
\* what is not a struct and on an index out of range.  ro is the
\* read-only flag of the value: set by an unexported field, and cleared
\* by an exported field of an embedded one.
RECURSIVE FieldByIndex(_, _, _, _, _)
FieldByIndex(t, index, first, recv, ro) ==
  IF ~first /\ Kind(t) = "ptr" /\ Kind(Elem(t)) = "struct" /\ recv = RecvZero
  THEN [out |-> "panic", sf |-> Fld(<< >>, ""), ro |-> ro]
  ELSE
    LET st == IF ~first /\ Kind(t) = "ptr" THEN Elem(t) ELSE t
    IN IF Kind(st) # "struct" \/ index[1] >= NumField(st)
       THEN [out |-> "panic", sf |-> Fld(<< >>, ""), ro |-> ro]
       ELSE
         LET sf == Field(st, index[1])
             flag == [sticky |-> ro.sticky \/ (sf.PkgPath # "" /\ ~sf.Anonymous),
                      embed |-> sf.PkgPath # "" /\ sf.Anonymous]
         IN IF Len(index) = 1 THEN [out |-> "ok", sf |-> sf, ro |-> flag]
            ELSE FieldByIndex(sf.Type, Tail(index), FALSE, recv, flag)

\* StructRowFieldReceiver.getField: FieldByIndex(f.path).Addr().Interface()
\* on a receiver of type t.  The receiver is addressable, so are its
\* fields; Interface panics on a read-only value.
getField(t, f, recv) ==
  LET v == FieldByIndex(t, f.path, TRUE, recv, [sticky |-> FALSE, embed |-> FALSE])
  IN IF v.out = "ok" /\ (v.ro.sticky \/ v.ro.embed)
     THEN [v EXCEPT !.out = "panic"]
     ELSE v

\* StructRowFields.Populate: getField for each field, in order.
Populate(t, fs, recv) == [i \in 1..Len(fs) |-> getField(t, fs[i], recv)]

\* Every record type with each receiver, for Populate on the paths of the
\* type's table.
PopulateProbes ==
  { [fn |-> "Populate", typ |-> t, cols |-> << >>, field |-> r] :
      t \in StructTypes, r \in {RecvZero, RecvFilled} }

Probes ==
  FieldPosProbes \cup TableProbes \cup EntryProbes \cup HashProbes
    \cup PopulateProbes

ProbeInit ==
  /\ InitCaches
  /\ probe \in Probes
  /\ answer = NoAnswer
  /\ NoCollector

\* fieldPosByName(probe.cols, probe.field).
ApplyFieldPosByName ==
  /\ probe.fn = "fieldPosByName"
  /\ ~answer.given
  /\ answer' = [given |-> TRUE, value |-> fieldPosByName(probe.cols, probe.field)]
  /\ UNCHANGED <<collVars, hasher, namedStructRowFieldMap, structRowFieldsByPosMap,
                 structRowFieldsByNameMap, heap, pc, call, entriesIface, entries,
                 newEntry, posFields, result, via, resolved, started, resets,
                 quiet, probe>>

\* computeStructFieldNames(probe.typ).
ApplyComputeStructFieldNames ==
  /\ probe.fn = "computeStructFieldNames"
  /\ ~answer.given
  /\ answer' = [given |-> TRUE, value |-> computeStructFieldNames(probe.typ)]
  /\ UNCHANGED <<collVars, hasher, namedStructRowFieldMap, structRowFieldsByPosMap,
                 structRowFieldsByNameMap, heap, pc, call, entriesIface, entries,
                 newEntry, posFields, result, via, resolved, started, resets,
                 quiet, probe>>

\* namedStructScanner.initialize on rows with the columns probe.cols and
\* caches never used: the entry built, what GetStructRowFieldsByName
\* returns, and the error of the strict and of the lax scanner.
ApplyInitialize ==
  /\ probe.fn = "initialize"
  /\ ~answer.given
  /\ \E e \in {buildNamedStructRowFieldsEntry(computeStructFieldNames(probe.typ),
                                               probe.cols)} :
     \E res \in {IF firstUnset(e.fields, 0) # -1
                 THEN unsetResult(e, probe.cols) ELSE entryResult(e)} :
       answer' = [given |-> TRUE,
                  value |-> [entry |-> e, res |-> res,
                             strict |-> initialize(FALSE, res),
                             lax |-> initialize(TRUE, res)]]
  /\ UNCHANGED <<collVars, hasher, namedStructRowFieldMap, structRowFieldsByPosMap,
                 structRowFieldsByNameMap, heap, pc, call, entriesIface, entries,
                 newEntry, posFields, result, via, resolved, started, resets,
                 quiet, probe>>

\* hashColNames(probe.cols): the bytes it writes to the hasher.
ApplyHashColNames ==
  /\ probe.fn = "hashColNames"
  /\ ~answer.given
  /\ answer' = [given |-> TRUE, value |-> HashStream(probe.cols)]
  /\ UNCHANGED <<collVars, hasher, namedStructRowFieldMap, structRowFieldsByPosMap,
                 structRowFieldsByNameMap, heap, pc, call, entriesIface, entries,
                 newEntry, posFields, result, via, resolved, started, resets,
                 quiet, probe>>

\* Populate on the receiver probe.field with the paths of the table of
\* probe.typ: the table, and what each getField gave.
ApplyPopulate ==
  /\ probe.fn = "Populate"
  /\ ~answer.given
  /\ \E table \in {computeStructFieldNames(probe.typ)} :
       answer' = [given |-> TRUE,
                  value |-> [table |-> table,
                             scanTargets |->
                               Populate(probe.typ, pathsOf(table), probe.field)]]
  /\ UNCHANGED <<collVars, hasher, namedStructRowFieldMap, structRowFieldsByPosMap,
                 structRowFieldsByNameMap, heap, pc, call, entriesIface, entries,
                 newEntry, posFields, result, via, resolved, started, resets,
                 quiet, probe>>

ProbeNext ==
  \/ ApplyFieldPosByName
  \/ ApplyComputeStructFieldNames
  \/ ApplyInitialize
  \/ ApplyHashColNames
  \/ ApplyPopulate

ProbeSpec == ProbeInit /\ [][ProbeNext]_vars

\* The letter c in lower case; c itself when it is no upper case letter.
Lower(c) ==
  IF \E i \in 1..Len(UpperLetters) : UpperLetters[i] = c
  THEN LowerLetters[CHOOSE i \in 1..Len(UpperLetters) : UpperLetters[i] = c]
  ELSE c

\* A name as the claims compare it: every underscore removed, every letter
\* in lower case, every other character kept.
RECURSIVE Canon(_)
Canon(s) ==
  IF s = << >> THEN << >>
  ELSE IF Head(s) = "_" THEN Canon(Tail(s))
  ELSE <<Lower(Head(s))>> \o Canon(Tail(s))

(***************************************************************************)
(* C11.  fieldPosByName returns the lowest index of a column whose name    *)
(* equals the field's column name once every underscore is removed from    *)
(* both and case is folded, and -1 when there is none; no other character  *)
(* is normalized: first_name matches FirstName, first-name does not.       *)
(***************************************************************************)
C11_LowestMatchingColumn ==
  (probe.fn = "fieldPosByName" /\ answer.given) =>
    LET hits == { i \in 0..(Len(probe.cols) - 1) :
                    Canon(probe.cols[i + 1]) = Canon(probe.field) }
    IN /\ hits = {} => answer.value = -1
       /\ hits # {} => answer.value \in hits /\ \A j \in hits : answer.value <= j
       /\ (probe.field = NameCamel /\ probe.cols = <<NameSnake>>) => answer.value = 0
       /\ (probe.field = NameCamel /\ probe.cols = <<NameDash>>) => answer.value = -1

\* The column first-name was passed over and first_name, after it, was
\* returned for the field FirstName.
C11_Witness ==
  /\ probe.fn = "fieldPosByName" /\ answer.given
  /\ probe.field = NameCamel
  /\ probe.cols = <<NameDash, NameSnake>>
  /\ answer.value = 1

(***************************************************************************)
(* C12.  A successful named resolution returns exactly one path per        *)
(* column, in column order: the path at position i is that of a declared   *)
(* field whose column name equals the name of column i once both are       *)
(* normalized.  Type {Last, First, Age} with columns first, last, age      *)
(* gives the paths of First, Last, Age.                                    *)
(***************************************************************************)
C12_OnePathPerColumn ==
  \A p \in Callers :
    (NamedDone(p) /\ result[p].err = NoErr) =>
      LET table == EligibleFields[call[p].typ]
      IN /\ Len(result[p].fields) = Len(call[p].cols)
         /\ \A i \in 1..Len(call[p].cols) :
              \E k \in 1..Len(table) :
                /\ table[k].field = result[p].fields[i]
                /\ Canon(table[k].name) = Canon(call[p].cols[i])
         /\ (call[p].typ = "person" /\ call[p].cols = <<ColFirst, ColLast, ColAge>>) =>
              result[p].fields = <<[path |-> <<1>>], [path |-> <<0>>], [path |-> <<2>>]>>

\* The columns first, last, age were resolved against {Last, First, Age}:
\* the paths come back in another order than the fields are declared in.
C12_Witness ==
  \E p \in Callers :
    /\ NamedDone(p) /\ result[p].err = NoErr
    /\ call[p].cols = <<ColFirst, ColLast, ColAge>>
    /\ result[p].fields # pathsOf(EligibleFields[call[p].typ])
    /\ Len(result[p].fields) = 3

(***************************************************************************)
(* The field table, as the claims speak of it.                             *)
(***************************************************************************)
\* Path a comes before path b in depth-first declaration order.
RECURSIVE PathBefore(_, _)
PathBefore(a, b) ==
  IF a = << >> THEN b # << >>
  ELSE IF b = << >> THEN FALSE
  ELSE IF Head(a) # Head(b) THEN Head(a) < Head(b)
  ELSE PathBefore(Tail(a), Tail(b))

\* The entries of a table whose paths go through field i of the type.
Through(table, i) ==
  SelectSeq(table, LAMBDA e : e.field.path # << >> /\ Head(e.field.path) = i)

\* The entries of a table, each path with index i put before it.
Under(table, i) ==
  [k \in 1..Len(table) |->
     [field |-> [path |-> <<i>> \o table[k].field.path], name |-> table[k].name]]

\* The fields of a type that are embedded structs / embedded pointers.
EmbeddedStructs(t) ==
  { i \in 0..(NumField(t) - 1) :
      Field(t, i).Anonymous /\ Field(t, i).Type \in StructTypes }

EmbeddedPointers(t) ==
  { i \in 0..(NumField(t) - 1) :
      Field(t, i).Anonymous /\ Field(t, i).Type \in PtrTypes }

\* The function has been applied to the probe.
Answered(fn) == probe.fn = fn /\ answer.given

(***************************************************************************)
(* C13.  computeStructFieldNames lists the eligible fields in depth-first  *)
(* declaration order; an embedded struct at index i is traversed           *)
(* transparently: the entries of its own table stand at its place, each    *)
(* with i put before its path, and the embedded field has no entry.        *)
(***************************************************************************)
C13_EmbeddedStructsFlattened ==
  Answered("computeStructFieldNames") =>
    LET table == answer.value
    IN /\ \A k, l \in 1..Len(table) :
            k < l => PathBefore(table[k].field.path, table[l].field.path)
       /\ \A i \in EmbeddedStructs(probe.typ) :
            /\ Through(table, i) = Under(EligibleFields[Field(probe.typ, i).Type], i)
            /\ \A k \in 1..Len(table) : table[k].field.path # <<i>>
       /\ probe.typ = "meal" =>
            table = << [field |-> [path |-> <<0, 0>>], name |-> <<"B","r","e","a","d">>],
                       [field |-> [path |-> <<0, 1>>], name |-> <<"S","a","l","a","d">>],
                       [field |-> [path |-> <<1, 0>>], name |-> <<"M","l">>] >>

\* The table of a type whose embedded struct embeds a struct: a path runs
\* through both.
C13_Witness ==
  /\ Answered("computeStructFieldNames")
  /\ probe.typ = "staff"
  /\ Len(answer.value) = 4
  /\ answer.value[3].field.path = <<1, 0, 1>>
  /\ answer.value[4].field.path = <<1, 1>>

(***************************************************************************)
(* C14, as stated.  An embedded pointer to a struct is excluded from the   *)
(* mapping entirely: the table has no entry for the pointer field itself   *)
(* and none for the fields of the struct pointed to.                       *)
(***************************************************************************)
C14_EmbeddedPointerExcluded ==
  Answered("computeStructFieldNames") =>
    \A i \in EmbeddedPointers(probe.typ) : Through(answer.value, i) = << >>

(***************************************************************************)
(* C14, amended.  An embedded pointer to a struct is never traversed: the  *)
(* table has no entry for a field of the struct pointed to.  The pointer   *)
(* field itself is listed like a field that is not embedded: when its name *)
(* (the name of the type pointed to) is exported the table has one entry   *)
(* for it, with the path of the field and that name as column name; when   *)
(* the name is not exported the table has no entry for it.                 *)
(***************************************************************************)
C14_EmbeddedPointerNotTraversed ==
  Answered("computeStructFieldNames") =>
    \A i \in EmbeddedPointers(probe.typ) :
      LET sf == Field(probe.typ, i)
      IN /\ \A k \in 1..Len(answer.value) :
              Len(answer.value[k].field.path) > 1 =>
                Head(answer.value[k].field.path) # i
         /\ sf.PkgPath = "" =>
              Through(answer.value, i) =
                << [field |-> [path |-> <<i>>], name |-> sf.Name] >>
         /\ sf.PkgPath # "" => Through(answer.value, i) = << >>

\* The table of { *Name; Age int32 }: an entry for the pointer field,
\* named Name, and the entry of Age.
C14_Witness ==
  /\ Answered("computeStructFieldNames")
  /\ probe.typ = "personPtr"
  /\ Len(answer.value) = 2
  /\ answer.value[1].name = <<"N","a","m","e">>
  /\ answer.value[1].field.path = <<0>>

(***************************************************************************)
(* The db tag, as the claims speak of it.                                  *)
(***************************************************************************)
\* The text of a tag up to its first comma.
UpToComma(tag) ==
  LET commas == { i \in 1..Len(tag) : tag[i] = "," }
  IN IF commas = {} THEN tag
     ELSE SubSeq(tag, 1, (CHOOSE i \in commas : \A j \in commas : i <= j) - 1)

\* The fields of a type that are exported and are not embedded.
PlainFields(t) ==
  { i \in 0..(NumField(t) - 1) :
      ~Field(t, i).Anonymous /\ Field(t, i).PkgPath = "" }

\* The table has exactly one entry for field i, named name.
ListedAs(table, i, name) ==
  Through(table, i) = << [field |-> [path |-> <<i>>], name |-> name] >>

(***************************************************************************)
(* C15, as stated.  A field without db tag is listed under its declared    *)
(* name; a field whose tag is exactly "-" is excluded; a field with any    *)
(* other tag is listed under the tag text up to the first comma.           *)
(***************************************************************************)
C15_ExcludedByExactDash ==
  Answered("computeStructFieldNames") =>
    \A i \in PlainFields(probe.typ) :
      LET sf == Field(probe.typ, i)
      IN /\ ~sf.Tag.present => ListedAs(answer.value, i, sf.Name)
         /\ (sf.Tag.present /\ sf.Tag.value = <<"-">>) =>
              Through(answer.value, i) = << >>
         /\ (sf.Tag.present /\ sf.Tag.value # <<"-">>) =>
              ListedAs(answer.value, i, UpToComma(sf.Tag.value))

(***************************************************************************)
(* C15, amended.  The column name of an eligible field is its declared     *)
(* name when it has no db tag and the tag text up to the first comma when  *)
(* it has one; a field is excluded when the tag text up to the first comma *)
(* is exactly "-", whether options follow it or not.                       *)
(***************************************************************************)
C15_ExcludedByDashName ==
  Answered("computeStructFieldNames") =>
    \A i \in PlainFields(probe.typ) :
      LET sf == Field(probe.typ, i)
      IN /\ ~sf.Tag.present => ListedAs(answer.value, i, sf.Name)
         /\ (sf.Tag.present /\ UpToComma(sf.Tag.value) = <<"-">>) =>
              Through(answer.value, i) = << >>
         /\ (sf.Tag.present /\ UpToComma(sf.Tag.value) # <<"-">>) =>
              ListedAs(answer.value, i, UpToComma(sf.Tag.value))

\* The table of account: Email is listed as email, its option dropped;
\* Gone ("-,omitempty"), secret and Age ("-") are not listed.
C15_Witness ==
  /\ Answered("computeStructFieldNames")
  /\ probe.typ = "account"
  /\ Len(answer.value) = 2
  /\ answer.value[1].name = <<"e","m","a","i","l">>
  /\ answer.value[2].field.path = <<2>>

(***************************************************************************)
(* C16.  With finitely many callers and calls and no reset, every call     *)
(* returns in the end under weak fairness of each caller.  The publish     *)
(* loop is left only by a swap that succeeds or by finding the entry in    *)
(* the list loaded after a failed swap, and a swap fails only when the     *)
(* list under the key has grown by another caller's swap since the caller  *)
(* loaded it.                                                              *)
(***************************************************************************)
C16_EveryCallReturns ==
  /\ \A p \in Callers : (pc[p] \notin {"idle", "done"}) ~> (pc[p] = "done")
  /\ [][\A p \in Callers :
          /\ (pc[p] = "cas" /\ pc'[p] = "reload") =>
               Len(ListUnder(KeyOf(call[p].typ, call[p].cols))) > Len(entries[p])
          /\ (pc[p] \in {"cas", "reload"} /\ pc'[p] \notin {"cas", "reload"}) =>
               /\ pc'[p] = "done"
               /\ via'[p] \in {"published", "republished", "reloaded"}]_vars

\* A caller lost the swap to the publisher of another sequence of its key,
\* did not find its columns in the list it loaded, and published at its
\* second swap.
C16_Witness ==
  \E p \in Callers :
    /\ pc[p] = "done" /\ via[p] = "republished"
    /\ Len(entries[p]) = 1
    /\ entries[p][1].cols # call[p].cols

(***************************************************************************)
(* C17.  No torn entry is observable.  Every list under a key, and every   *)
(* list a reader has loaded, holds only completely built entries: the      *)
(* columns, all the field paths and the missing-field name as one build    *)
(* for those columns gives them.  A list, once allocated, never changes:   *)
(* a publisher puts a new list under the key, it writes to none that is    *)
(* there.                                                                  *)
(***************************************************************************)
\* The entry one build gives for every input.
Built ==
  [in \in Inputs |-> buildNamedStructRowFieldsEntry(EligibleFields[in[1]], in[2])]

\* Every entry of list es, a list of type typ, is completely built.
AllBuilt(typ, es) ==
  \A i \in 1..Len(es) :
    /\ <<typ, es[i].cols>> \in Inputs
    /\ es[i] = Built[<<typ, es[i].cols>>]
    /\ Len(es[i].fields) = Len(es[i].cols)
    /\ \A k \in 1..Len(es[i].fields) : isSet(es[i].fields[k])

C17_NoTornEntry ==
  /\ [](/\ \A key \in DOMAIN structRowFieldsByNameMap :
             AllBuilt(key[1], heap[structRowFieldsByNameMap[key]])
        /\ \A p \in Callers :
             entriesIface[p] # NilPtr =>
               /\ entries[p] = heap[entriesIface[p]]
               /\ AllBuilt(call[p].typ, entries[p]))
  /\ [][/\ \A ptr \in DOMAIN heap :
             ptr \in DOMAIN heap' /\ heap'[ptr] = heap[ptr]
        /\ \A key \in DOMAIN structRowFieldsByNameMap' :
             (key \notin DOMAIN structRowFieldsByNameMap
                \/ structRowFieldsByNameMap'[key] # structRowFieldsByNameMap[key]) =>
               structRowFieldsByNameMap'[key] \notin DOMAIN heap]_vars

\* A reader holds the empty list it loaded while a list with an entry has
\* been put under the key: the reader's list is as it was.
C17_Witness ==
  \E q \in Callers :
    /\ pc[q] \in {"lookup", "compute", "cas"}
    /\ entriesIface[q] # NilPtr
    /\ entries[q] = << >>
    /\ heap[entriesIface[q]] = << >>
    /\ Len(ListUnder(KeyOf(call[q].typ, call[q].cols))) = 1

(***************************************************************************)
(* The walk without caches: positionalStructScanner and namedStructScanner *)
(* before the caches were introduced.  Every Initialize walks the type.    *)
(***************************************************************************)
\* positionalStructScanner.populateFields from field i on: the paths it
\* appends.  The tag is compared with "-" as it is written, not cut.
RECURSIVE posPopulateFields(_, _, _)
posPopulateFields(t, fieldStack, i) ==
  IF i >= NumField(t) THEN << >>
  ELSE
    LET sf == Field(t, i)
        path == fieldStack \o <<i>>
        here ==
          IF sf.Anonymous /\ Kind(sf.Type) = "struct"
          THEN posPopulateFields(sf.Type, path, 0)
          ELSE IF sf.PkgPath = ""
          THEN IF sf.Tag.value = <<"-">> THEN << >> ELSE << [path |-> path] >>
          ELSE << >>
    IN here \o posPopulateFields(t, fieldStack, i + 1)

\* positionalStructScanner.Initialize: the fields and the error.
posInitialize(t, fldDescs) ==
  IF Kind(t) # "struct"
  THEN [fields |-> << >>, err |-> ErrNotStruct]
  ELSE LET fields == posPopulateFields(t, << >>, 0)
       IN IF Len(fields) # Len(fldDescs)
          THEN [fields |-> fields, err |-> ErrArity(Len(fldDescs), Len(fields))]
          ELSE [fields |-> fields, err |-> NoErr]

\* namedStructScanner.populateFields from field i on, given rs.fields and
\* the error so far: an error ends the walk.
RECURSIVE namedPopulateFields(_, _, _, _, _, _)
namedPopulateFields(fldDescs, lax, t, fieldStack, i, sofar) ==
  IF sofar.err # NoErr \/ i >= NumField(t) THEN sofar
  ELSE
    LET sf == Field(t, i)
        path == fieldStack \o <<i>>
        colName == ColNameOf(sf)
        fpos == fieldPosByName(fldDescs, colName)
        after ==
          IF sf.PkgPath # "" /\ ~sf.Anonymous THEN sofar
          ELSE IF sf.Anonymous /\ Kind(sf.Type) = "struct"
          THEN namedPopulateFields(fldDescs, lax, sf.Type, path, 0, sofar)
          ELSE IF TagName(sf) = <<"-">> THEN sofar
          ELSE IF fpos = -1
          THEN IF lax THEN sofar ELSE [sofar EXCEPT !.err = ErrMissing(colName)]
          ELSE [sofar EXCEPT !.fields[fpos + 1] = [path |-> path]]
    IN namedPopulateFields(fldDescs, lax, t, fieldStack, i + 1, after)

\* namedStructScanner.initialize of the walk without caches.
namedInitialize(t, fldDescs, lax) ==
  IF Kind(t) # "struct"
  THEN [fields |-> << >>, err |-> ErrNotStruct]
  ELSE LET r == namedPopulateFields(fldDescs, lax, t, << >>, 0,
                  [fields |-> [i \in 1..Len(fldDescs) |-> UnsetField], err |-> NoErr])
       IN IF r.err # NoErr THEN r
          ELSE IF firstUnset(r.fields, 0) # -1
          THEN [r EXCEPT !.err = ErrNoField(fldDescs[firstUnset(r.fields, 0) + 1])]
          ELSE r

\* What the walk without caches gives for every call.
Uncached ==
  [c \in Calls |->
     IF c.op = "pos" THEN posInitialize(c.typ, c.cols)
     ELSE namedInitialize(c.typ, c.cols, c.op = "lax")]

(***************************************************************************)
(* C18.  The cached resolvers are a drop-in replacement for the walk       *)
(* without caches: every call, positional, strict or lax, succeeds with    *)
(* the same field paths or fails with the same error, naming the same      *)
(* field or column.                                                        *)
(***************************************************************************)
C18_SameAsUncached ==
  \A p \in Callers :
    pc[p] = "done" =>
      /\ InitErr(p) = Uncached[call[p]].err
      /\ InitErr(p) = NoErr => result[p].fields = Uncached[call[p]].fields

(***************************************************************************)
(* C19.  After ClearStructFieldCaches has run with no call in flight all   *)
(* cached state is gone.  When its last assignment is done the three       *)
(* caches are empty and CollidingFieldSets returns nil for every input.    *)
(* From then on a list holds entries only for sequences resolved since     *)
(* the reset, so the first resolution of a sequence after the reset is not *)
(* served from the cache: it builds its entry.  Every call returns what a  *)
(* resolution on a cache never used returns.                               *)
(***************************************************************************)
\* The caches hold nothing from before the reset.
OnlySinceReset ==
  \A key \in DOMAIN structRowFieldsByNameMap :
    LET es == ListUnder(key)
    IN \A i \in 1..Len(es) :
         \E r \in resolved : KeyOf(r[1], r[2]) = key /\ r[2] = es[i].cols

\* The three caches are empty.
AllEmpty ==
  /\ namedStructRowFieldMap = << >>
  /\ structRowFieldsByPosMap = << >>
  /\ structRowFieldsByNameMap = << >>
  /\ \A in \in Inputs : CollidingFieldSets(in[1], in[2]).isNil

\* Goroutine p took the step.
Moved(p) ==
  <<pc[p], call[p], via[p], result[p]>> # <<pc[p], call[p], via[p], result[p]>>'

C19_ResetDiscardsAll ==
  /\ []((quiet /\ ResetDone) =>
          /\ OnlySinceReset
          /\ \A p \in Callers :
               NamedDone(p) => result[p] = Fresh[<<call[p].typ, call[p].cols>>])
  /\ [][ /\ (quiet' /\ resets' # resets /\ ResetDone') => AllEmpty'
         /\ \A p \in Callers :
              (/\ quiet' /\ ResetDone /\ Moved(p)
               /\ NamedDone(p)' /\ via'[p] \in {"warm", "reloaded"}) =>
                <<call'[p].typ, call'[p].cols>> \in resolved ]_vars

\* A sequence was resolved and published, the caches were reset with no
\* call in flight, and the next call for the sequence went through the
\* build again and published an entry equal to the one discarded.
C19_Witness ==
  /\ quiet /\ ResetDone
  /\ \E p \in Callers :
       /\ NamedDone(p) /\ via[p] = "published"
       /\ LET key == KeyOf(call[p].typ, call[p].cols)
          IN /\ CollidingFieldSets(call[p].typ, call[p].cols).fieldSets
                  = <<call[p].cols>>
             /\ \E old \in DOMAIN heap :
                  /\ old.key = key
                  /\ old.ver < structRowFieldsByNameMap[key].ver
                  /\ heap[old] = heap[structRowFieldsByNameMap[key]]

(***************************************************************************)
(* C20.  The reset is unsafe while a named resolution is in flight.  When  *)
(* the caller comes to its compare-and-swap and the reset has taken the    *)
(* key from the map, the swap fails and stores nothing; the reload that    *)
(* follows finds no pointer under the key and the call panics without a    *)
(* result.  A call panics in no other way: only a named call, holding a    *)
(* pointer it loaded or installed, with a reset run during a call.         *)
(***************************************************************************)
\* The key of p's call has no list in the map.
KeyGone(p) ==
  KeyOf(call[p].typ, call[p].cols) \notin DOMAIN structRowFieldsByNameMap

C20_ResetUnsafeInFlight ==
  /\ [](\A p \in Callers :
          pc[p] = "panic" =>
            /\ ~quiet
            /\ resets > 2
            /\ call[p].op \in {"strict", "lax"}
            /\ entriesIface[p] \in DOMAIN heap
            /\ result[p] = NoResult)
  /\ [][\A p \in Callers :
          /\ (pc[p] = "cas" /\ KeyGone(p) /\ Moved(p)) =>
               /\ pc'[p] = "reload"
               /\ structRowFieldsByNameMap' = structRowFieldsByNameMap
          /\ (pc[p] = "reload" /\ KeyGone(p) /\ Moved(p)) =>
               /\ pc'[p] = "panic"
               /\ result'[p] = NoResult ]_vars

\* A caller installed its empty list and built its entry, the reset
\* emptied the map, the swap failed and the reload found nothing: the
\* caller panicked, still holding the pointer to the list it installed.
C20_Witness ==
  \E p \in Callers :
    /\ pc[p] = "panic"
    /\ KeyGone(p)
    /\ entriesIface[p] \in DOMAIN heap
    /\ heap[entriesIface[p]] = << >>
    /\ newEntry[p].cols = call[p].cols
    /\ ResetDone

(***************************************************************************)
(* The collectors.  A collector is handed a pgx.Rows and a Scanner and     *)
(* runs to its return, or to a panic raised under it, calling the two      *)
(* step by step.  The rows are the repository's MockRows: data rows        *)
(* holding 1, 2, ... and, after ThenErr or ThenPanic, one more row whose   *)
(* Scan fails.  pgx.Rows is an interface, and the rows of a connection     *)
(* report a broken stream otherwise: Next returns false and Err the        *)
(* error.  Such rows are MockRows with ends set.                           *)
(***************************************************************************)
\* Data rows of a MockRows.
MaxRows == 2

\* Capacity of the slice handed to AppendRows.
MaxCap == 2

\* The zero value of T (T is int, as in the tests).
Zero == 0

\* The value of data row i (0-based): makeExpectedAndRows.
RowValue(i) == i + 1

\* The elements of the caller's slice.
BaseValue(i) == 100 + i

ErrNil == "nil"
ErrArbitrary == "arbitrary error"
ErrInitialize == "initialize error"
ErrNoRows == "no rows in result set"
ErrTooManyRows == "too many rows in result set"

\* MockRows.err as an error value.
RowsError(m) == IF m.err THEN ErrArbitrary ELSE ErrNil

\* MockRows.Next.
RowsNext(m) ==
  LET idx == m.rowIdx + 1
      off == IF m.err /\ ~m.ends THEN 1 ELSE 0
      done == idx >= m.size + off
  IN [rows |-> [m EXCEPT !.rowIdx = idx, !.done = done], ok |-> ~done]

\* MockRows.Scan into one destination: what happens, and the value
\* written when the row is a data row.
RowsScan(m) ==
  IF m.done THEN [out |-> "panic", value |-> Zero]
  ELSE IF m.rowIdx = m.size
  THEN [out |-> IF m.panic THEN "panic" ELSE "err", value |-> Zero]
  ELSE [out |-> "ok", value |-> RowValue(m.rowIdx)]

\* MockRows.Err: it panics before done.
RowsErr(m) ==
  IF ~m.done THEN [out |-> "panic", err |-> ErrNil]
  ELSE [out |-> "ok", err |-> RowsError(m)]

\* MockRows.Close.
RowsClose(m) == [m EXCEPT !.done = TRUE, !.closed = TRUE]

\* The rows a collector may be handed: MakeMockRows, then ThenErr or
\* ThenPanic or neither.
RowsInputs ==
  { [size |-> n, rowIdx |-> -1, done |-> FALSE, err |-> md[1], closed |-> FALSE,
     panic |-> md[2], ends |-> md[3]] :
      n \in 0..MaxRows,
      md \in { <<FALSE, FALSE, FALSE>>, <<TRUE, FALSE, FALSE>>,
               <<TRUE, TRUE, FALSE>>, <<TRUE, FALSE, TRUE>> } }

\* simpleScanner.ScanRowInto and structScanner.ScanRowInto: rows.Scan into
\* the receiver.
ScanRowInto(m) == RowsScan(m)

\* The slices a caller may hand to AppendRows, with the backing array
\* numbered 0: nil, empty, and len elements in an array of cap.
SliceInputs ==
  { NilSlice }
  \cup UNION { { [nil |-> FALSE, arr |-> IF c = 0 THEN -1 ELSE 0,
                  len |-> l, cap |-> c] : l \in 0..c } : c \in 0..MaxCap }

\* The backing array of an input slice: its elements, then zero values.
BaseArray(sl) == [i \in 1..sl.cap |-> IF i <= sl.len THEN BaseValue(i) ELSE Zero]

\* []T{}: CollectRowsUsing, line 118.
EmptySlice == [nil |-> FALSE, arr |-> -1, len |-> 0, cap |-> 0]

\* The collectors and the function each runs.
Collectors ==
  {"AppendRows", "AppendRowsUsing", "CollectRows", "CollectRowsUsing",
   "CollectOneRow", "CollectOneRowUsing",
   "CollectExactlyOneRow", "CollectExactlyOneRowUsing"}

Body(fn) ==
  CASE fn \in {"AppendRows", "AppendRowsUsing", "CollectRows", "CollectRowsUsing"}
         -> "AppendRowsUsing"
    [] fn \in {"CollectOneRow", "CollectOneRowUsing"} -> "CollectOneRowUsing"
    [] fn \in {"CollectExactlyOneRow", "CollectExactlyOneRowUsing"}
         -> "CollectExactlyOneRowUsing"
    [] OTHER -> "none"

\* The slice a collector passes to AppendRowsUsing.
SlicesOf(fn) ==
  IF fn \in {"AppendRows", "AppendRowsUsing"} THEN SliceInputs ELSE {EmptySlice}

\* A collector is called: it stands before its first statement.
CollectInit ==
  /\ InitCaches
  /\ probe = NoProbe
  /\ answer = NoAnswer
  /\ rows \in RowsInputs
  /\ scanner \in [fails : BOOLEAN]
  /\ \E fn \in Collectors : \E sl \in SlicesOf(fn) :
       /\ frame = [fn |-> fn, pc |-> "start", slice |-> sl, input |-> sl,
                   startingLen |-> 0, startingPtr |-> -1, value |-> Zero,
                   ret |-> [s |-> NilSlice, value |-> Zero, err |-> ErrNil]]
       /\ mem = IF sl.cap > 0 THEN 0 :> BaseArray(sl) ELSE << >>
  /\ log = << >>

\* What a collector leaves alone: the caches and the probes.
cacheVars ==
  <<hasher, namedStructRowFieldMap, structRowFieldsByPosMap,
    structRowFieldsByNameMap, heap, pc, call, entriesIface, entries,
    newEntry, posFields, result, via, resolved, started, resets, quiet,
    probe, answer>>

\* The collector stands at program point at inside function body.
At(body, at) == Body(frame.fn) = body /\ frame.pc = at

\* The number of the next array allocated.
NewArr == 1 + Cardinality(DOMAIN mem)

\* The capacities append may give the array it allocates for n elements.
GrowTo(n) == {n, 2 * n}

\* sl[i] = v (i counted from 1).
StoreAt(memo, sl, i, v) == [memo EXCEPT ![sl.arr][i] = v]

\* Mutant of ZeroWritten: the whole slice is zeroed, not only the
\* elements beyond the starting length.
ZeroWrittenFromStart(fr, err, memo) ==
  IF err # ErrNil /\ fr.slice.len > fr.startingLen /\ fr.slice.arr = fr.startingPtr
  THEN [memo EXCEPT ![fr.slice.arr] =
          [i \in 1..Len(memo[fr.slice.arr]) |->
             IF i <= fr.slice.len THEN Zero ELSE memo[fr.slice.arr][i]]]
  ELSE memo

\* Mutant of ZeroWritten: only the last element appended is zeroed.
ZeroWrittenLastOnly(fr, err, memo) ==
  IF err # ErrNil /\ fr.slice.len > fr.startingLen /\ fr.slice.arr = fr.startingPtr
  THEN [memo EXCEPT ![fr.slice.arr][fr.slice.len] = Zero]
  ELSE memo

\* The deferred function of AppendRowsUsing, lines 78-90, run with the
\* named result err: when an error is returned and slice still begins
\* where the caller's slice begins, the elements written are zeroed.
ZeroWritten(fr, err, memo) ==
  IF err # ErrNil /\ fr.slice.len > fr.startingLen /\ fr.slice.arr = fr.startingPtr
  THEN [memo EXCEPT ![fr.slice.arr] =
          [i \in 1..Len(memo[fr.slice.arr]) |->
             IF i > fr.startingLen /\ i <= fr.slice.len
             THEN Zero ELSE memo[fr.slice.arr][i]]]
  ELSE memo

\* AppendRowsUsing returns (s, err) after the calls made in this step: the
\* deferred function runs if it was deferred, then the deferred
\* rows.Close().
AppendReturn(s, err, m, calls, zeroing) ==
  /\ frame' = [frame EXCEPT !.pc = "returned",
                            !.ret = [s |-> s, value |-> Zero, err |-> err]]
  /\ mem' = IF zeroing THEN ZeroWritten(frame, err, mem) ELSE mem
  /\ rows' = RowsClose(m)
  /\ log' = log \o calls \o <<"Close">>

\* Mutant of AppendPanic: rows.Close() is called on return instead of
\* being deferred, so a panic leaves the rows open.
AppendPanicLeavesOpen(m, calls) ==
  /\ frame' = [frame EXCEPT !.pc = "panicked"]
  /\ mem' = ZeroWritten(frame, ErrNil, mem)
  /\ rows' = m
  /\ log' = log \o calls

\* A panic passes through AppendRowsUsing: the named results are unset
\* (err is nil) when the deferred functions run.
AppendPanic(m, calls) ==
  /\ frame' = [frame EXCEPT !.pc = "panicked"]
  /\ mem' = ZeroWritten(frame, ErrNil, mem)
  /\ rows' = RowsClose(m)
  /\ log' = log \o calls \o <<"Close">>

\* AppendRowsUsing, lines 66-76: defer rows.Close(), Initialize, and the
\* length and first element of the caller's slice.
AppendRowsUsingInitialize ==
  /\ At("AppendRowsUsing", "start")
  /\ IF scanner.fails
     THEN AppendReturn(NilSlice, ErrInitialize, rows, <<"Initialize">>, FALSE)
     ELSE /\ frame' = [frame EXCEPT
                         !.pc = "next",
                         !.startingLen = frame.slice.len,
                         !.startingPtr = IF frame.slice.cap > 0
                                         THEN frame.slice.arr ELSE -1]
          /\ log' = Append(log, "Initialize")
          /\ UNCHANGED <<rows, mem>>
  /\ UNCHANGED <<scanner, cacheVars>>

\* AppendRowsUsing, lines 92-95: rows.Next() and, for a row, the append of
\* a zero value, in place or into a new array.
AppendRowsUsingNext ==
  /\ At("AppendRowsUsing", "next")
  /\ LET nx == RowsNext(rows)
         sl == frame.slice
     IN /\ rows' = nx.rows
        /\ IF ~nx.ok
           THEN /\ frame' = [frame EXCEPT !.pc = "err"]
                /\ log' = Append(log, "Next:false")
                /\ UNCHANGED mem
           ELSE /\ log' = Append(log, "Next:true")
                /\ IF sl.len < sl.cap
                   THEN /\ mem' = StoreAt(mem, sl, sl.len + 1, Zero)
                        /\ frame' = [frame EXCEPT
                                       !.pc = "scan",
                                       !.slice = [sl EXCEPT !.len = sl.len + 1]]
                   ELSE \E c \in GrowTo(sl.len + 1) :
                          /\ mem' = mem @@
                               (NewArr :> [i \in 1..c |->
                                             IF i <= sl.len THEN mem[sl.arr][i]
                                             ELSE Zero])
                          /\ frame' = [frame EXCEPT
                                         !.pc = "scan",
                                         !.slice = [nil |-> FALSE, arr |-> NewArr,
                                                    len |-> sl.len + 1, cap |-> c]]
  /\ UNCHANGED <<scanner, cacheVars>>

\* AppendRowsUsing, lines 96-99: ScanRowInto(&slice[i], rows).
AppendRowsUsingScan ==
  /\ At("AppendRowsUsing", "scan")
  /\ LET sc == ScanRowInto(rows)
     IN CASE sc.out = "ok" ->
               /\ mem' = StoreAt(mem, frame.slice, frame.slice.len, sc.value)
               /\ frame' = [frame EXCEPT !.pc = "next"]
               /\ log' = Append(log, "ScanRowInto")
               /\ UNCHANGED rows
          [] sc.out = "err" ->
               AppendReturn(NilSlice, RowsError(rows), rows, <<"ScanRowInto">>, TRUE)
          [] sc.out = "panic" ->
               AppendPanic(rows, <<"ScanRowInto">>)
  /\ UNCHANGED <<scanner, cacheVars>>

\* AppendRowsUsing, lines 102-106: rows.Err() after the last row.
AppendRowsUsingErr ==
  /\ At("AppendRowsUsing", "err")
  /\ LET e == RowsErr(rows)
     IN CASE e.out = "panic" -> AppendPanic(rows, <<"Err">>)
          [] e.out = "ok" /\ e.err # ErrNil ->
               AppendReturn(NilSlice, e.err, rows, <<"Err">>, TRUE)
          [] e.out = "ok" /\ e.err = ErrNil ->
               AppendReturn(frame.slice, ErrNil, rows, <<"Err">>, TRUE)
  /\ UNCHANGED <<scanner, cacheVars>>

\* CollectOneRowUsing or CollectExactlyOneRowUsing returns (v, err) after
\* the calls made in this step; the deferred rows.Close() runs.
ValueReturn(v, err, m, calls) ==
  /\ frame' = [frame EXCEPT !.pc = "returned",
                            !.ret = [s |-> NilSlice, value |-> v, err |-> err]]
  /\ rows' = RowsClose(m)
  /\ log' = log \o calls \o <<"Close">>
  /\ UNCHANGED mem

\* A panic passes through the function: the deferred rows.Close() runs.
ValuePanic(m, calls) ==
  /\ frame' = [frame EXCEPT !.pc = "panicked"]
  /\ rows' = RowsClose(m)
  /\ log' = log \o calls \o <<"Close">>
  /\ UNCHANGED mem

\* The collector goes on to at after a call.
ValueGoto(at, m, c) ==
  /\ frame' = [frame EXCEPT !.pc = at]
  /\ rows' = m
  /\ log' = Append(log, c)
  /\ UNCHANGED mem

\* Mutant of InitializeStep: the error of Initialize is not looked at.
InitializeStepIgnoresError ==
  /\ ValueGoto("next", rows, "Initialize")
  /\ UNCHANGED <<scanner, cacheVars>>

\* Lines 140-143 and 186-189: scanner.Initialize(rows).
InitializeStep ==
  /\ IF scanner.fails
     THEN ValueReturn(Zero, ErrInitialize, rows, <<"Initialize">>)
     ELSE ValueGoto("next", rows, "Initialize")
  /\ UNCHANGED <<scanner, cacheVars>>

\* Lines 145 and 191: the first rows.Next().
NextStep ==
  /\ LET nx == RowsNext(rows)
     IN IF nx.ok THEN ValueGoto("scan", nx.rows, "Next:true")
        ELSE ValueGoto("norows", nx.rows, "Next:false")
  /\ UNCHANGED <<scanner, cacheVars>>

\* Mutant of NoRowsStep: without a first row ErrNoRows is returned
\* whatever rows.Err() says.
NoRowsStepHidesErr ==
  /\ LET e == RowsErr(rows)
     IN CASE e.out = "panic" -> ValuePanic(rows, <<"Err">>)
          [] e.out = "ok" -> ValueReturn(Zero, ErrNoRows, rows, <<"Err">>)
  /\ UNCHANGED <<scanner, cacheVars>>

\* Lines 146-149 and 192-196: without a first row, rows.Err() or
\* ErrNoRows.
NoRowsStep ==
  /\ LET e == RowsErr(rows)
     IN CASE e.out = "panic" -> ValuePanic(rows, <<"Err">>)
          [] e.out = "ok" /\ e.err # ErrNil ->
               ValueReturn(Zero, e.err, rows, <<"Err">>)
          [] e.out = "ok" /\ e.err = ErrNil ->
               ValueReturn(Zero, ErrNoRows, rows, <<"Err">>)
  /\ UNCHANGED <<scanner, cacheVars>>

\* Lines 152-155 and 199-202: ScanRowInto(&value, rows); then is where the
\* function goes on after a row scanned.
ScanStep(then) ==
  /\ LET sc == ScanRowInto(rows)
     IN CASE sc.out = "ok" ->
               /\ frame' = [frame EXCEPT !.pc = then, !.value = sc.value]
               /\ log' = Append(log, "ScanRowInto")
               /\ UNCHANGED <<rows, mem>>
          [] sc.out = "err" ->
               ValueReturn(Zero, RowsError(rows), rows, <<"ScanRowInto">>)
          [] sc.out = "panic" ->
               ValuePanic(rows, <<"ScanRowInto">>)
  /\ UNCHANGED <<scanner, cacheVars>>

\* Mutant of CloseStep: rows.Err() is asked before rows.Close().
CloseStepErrBeforeClose ==
  /\ LET e == RowsErr(rows)
     IN CASE e.out = "panic" -> ValuePanic(rows, <<"Err">>)
          [] e.out = "ok" /\ e.err # ErrNil ->
               ValueReturn(Zero, e.err, rows, <<"Err", "Close">>)
          [] e.out = "ok" /\ e.err = ErrNil ->
               ValueReturn(frame.value, ErrNil, rows, <<"Err", "Close">>)
  /\ UNCHANGED <<scanner, cacheVars>>

\* Lines 157-164 and 208-215: rows.Close(), rows.Err(), and the value.
CloseStep ==
  /\ LET m == RowsClose(rows)
         e == RowsErr(m)
     IN CASE e.out = "panic" -> ValuePanic(m, <<"Close", "Err">>)
          [] e.out = "ok" /\ e.err # ErrNil ->
               ValueReturn(Zero, e.err, m, <<"Close", "Err">>)
          [] e.out = "ok" /\ e.err = ErrNil ->
               ValueReturn(frame.value, ErrNil, m, <<"Close", "Err">>)
  /\ UNCHANGED <<scanner, cacheVars>>

CollectOneRowUsingInitialize ==
  /\ At("CollectOneRowUsing", "start")
  /\ InitializeStep

CollectOneRowUsingNext ==
  /\ At("CollectOneRowUsing", "next")
  /\ NextStep

CollectOneRowUsingNoRows ==
  /\ At("CollectOneRowUsing", "norows")
  /\ NoRowsStep

CollectOneRowUsingScan ==
  /\ At("CollectOneRowUsing", "scan")
  /\ ScanStep("close")

CollectOneRowUsingClose ==
  /\ At("CollectOneRowUsing", "close")
  /\ CloseStep

CollectExactlyOneRowUsingInitialize ==
  /\ At("CollectExactlyOneRowUsing", "start")
  /\ InitializeStep

CollectExactlyOneRowUsingNext ==
  /\ At("CollectExactlyOneRowUsing", "next")
  /\ NextStep

CollectExactlyOneRowUsingNoRows ==
  /\ At("CollectExactlyOneRowUsing", "norows")
  /\ NoRowsStep

CollectExactlyOneRowUsingScan ==
  /\ At("CollectExactlyOneRowUsing", "scan")
  /\ ScanStep("more")

\* Mutant of CollectExactlyOneRowUsingMore: with a second row the value
\* scanned from the first is returned along with ErrTooManyRows.
CollectExactlyOneRowUsingMoreKeepsValue ==
  /\ At("CollectExactlyOneRowUsing", "more")
  /\ LET nx == RowsNext(rows)
     IN IF nx.ok
        THEN ValueReturn(frame.value, ErrTooManyRows, nx.rows, <<"Next:true">>)
        ELSE ValueGoto("close", nx.rows, "Next:false")
  /\ UNCHANGED <<scanner, cacheVars>>

\* CollectExactlyOneRowUsing, lines 204-206: the second rows.Next().
CollectExactlyOneRowUsingMore ==
  /\ At("CollectExactlyOneRowUsing", "more")
  /\ LET nx == RowsNext(rows)
     IN IF nx.ok
        THEN ValueReturn(Zero, ErrTooManyRows, nx.rows, <<"Next:true">>)
        ELSE ValueGoto("close", nx.rows, "Next:false")
  /\ UNCHANGED <<scanner, cacheVars>>

CollectExactlyOneRowUsingClose ==
  /\ At("CollectExactlyOneRowUsing", "close")
  /\ CloseStep

CollectNext ==
  \/ AppendRowsUsingInitialize
  \/ AppendRowsUsingNext
  \/ AppendRowsUsingScan
  \/ AppendRowsUsingErr
  \/ CollectOneRowUsingInitialize
  \/ CollectOneRowUsingNext
  \/ CollectOneRowUsingNoRows
  \/ CollectOneRowUsingScan
  \/ CollectOneRowUsingClose
  \/ CollectExactlyOneRowUsingInitialize
  \/ CollectExactlyOneRowUsingNext
  \/ CollectExactlyOneRowUsingNoRows
  \/ CollectExactlyOneRowUsingScan
  \/ CollectExactlyOneRowUsingMore
  \/ CollectExactlyOneRowUsingClose

CollectSpec == CollectInit /\ [][CollectNext]_vars

\* The collector has returned, or a panic has left it.
Exited == frame.pc \in {"returned", "panicked"}

(***************************************************************************)
(* C21.  Every collector has closed rows by the time it exits, whether it  *)
(* returns (with or without an error) or a panic raised under it passes    *)
(* through: rows.Close() is the last call it makes.                        *)
(***************************************************************************)
C21_RowsClosedOnExit ==
  Exited =>
    /\ rows.closed
    /\ log # << >>
    /\ log[Len(log)] = "Close"

\* AppendRows scanned a row into the caller's array, the Scan of the next
\* row panicked, and the rows, which no Next had brought to their end,
\* are closed.
C21_Witness ==
  /\ frame.fn = "AppendRows"
  /\ frame.pc = "panicked"
  /\ rows.closed
  /\ rows.rowIdx = 1
  /\ frame.slice.arr = frame.startingPtr

(***************************************************************************)
(* C22.  When AppendRows returns an error, from Initialize, from a Scan or *)
(* from rows.Err() after any number of rows scanned, it returns a nil      *)
(* slice with the error, and the caller's slice has the length and the     *)
(* elements it had.                                                        *)
(***************************************************************************)
\* The elements of the caller's slice, as they are now.
InputElements ==
  [i \in 1..frame.input.len |-> mem[frame.input.arr][i]]

C22_AppendFailureLeavesInput ==
  (/\ Body(frame.fn) = "AppendRowsUsing"
   /\ frame.pc = "returned"
   /\ frame.ret.err # ErrNil) =>
     /\ frame.ret.s = NilSlice
     /\ InputElements = [i \in 1..frame.input.len |-> BaseValue(i)]

\* The caller's slice had one element and room for another: a row was
\* scanned into the room, rows.Err() then reported an error, and the call
\* returned nil with the error.
C22_Witness ==
  /\ frame.fn = "AppendRows"
  /\ frame.pc = "returned"
  /\ frame.ret.err = ErrArbitrary
  /\ rows.ends
  /\ rows.size > 0
  /\ frame.input.len = 1
  /\ frame.input.cap = 2
  /\ "ScanRowInto" \in { log[i] : i \in 1..Len(log) }
  /\ InputElements = <<BaseValue(1)>>

(***************************************************************************)
(* C23.  CollectOneRow returns without error only the value scanned from   *)
(* the first row, and never asks for a second row.  Without a first row    *)
(* it returns rows.Err() if that is set and ErrNoRows otherwise.  With     *)
(* every error it returns the zero value.                                  *)
(***************************************************************************)
\* How often the collector made the call c.
CallsMade(c) == Cardinality({ i \in 1..Len(log) : log[i] = c })

\* The first rows.Next() returned false.
NoFirstRow == Len(log) >= 2 /\ log[2] = "Next:false"

C23_OneRowFirstOnly ==
  Body(frame.fn) = "CollectOneRowUsing" =>
    /\ CallsMade("Next:true") + CallsMade("Next:false") <= 1
    /\ frame.pc = "returned" =>
         /\ frame.ret.err # ErrNil => frame.ret.value = Zero
         /\ frame.ret.err = ErrNil =>
              /\ frame.ret.value = RowValue(0)
              /\ rows.rowIdx = 0
              /\ CallsMade("ScanRowInto") = 1
         /\ NoFirstRow =>
              /\ frame.ret.value = Zero
              /\ frame.ret.err = IF rows.err THEN ErrArbitrary ELSE ErrNoRows

\* Two rows: the first was scanned and returned, the second never asked
\* for.
C23_Witness ==
  /\ frame.fn = "CollectOneRow"
  /\ frame.pc = "returned"
  /\ rows.size = 2
  /\ frame.ret.err = ErrNil
  /\ frame.ret.value = RowValue(0)
  /\ rows.rowIdx = 0

(***************************************************************************)
(* C24.  CollectExactlyOneRow returns without error exactly when           *)
(* Initialize succeeds and rows holds one row and no error.  Without rows  *)
(* it returns the rows' error if there is one and ErrNoRows otherwise;     *)
(* with two or more rows it returns ErrTooManyRows having scanned the      *)
(* first only; with every error it returns the zero value.                 *)
(***************************************************************************)
C24_ExactlyOneRow ==
  (Body(frame.fn) = "CollectExactlyOneRowUsing" /\ frame.pc = "returned") =>
    /\ frame.ret.err = ErrNil <=> (rows.size = 1 /\ ~rows.err /\ ~scanner.fails)
    /\ frame.ret.err = ErrNil => frame.ret.value = RowValue(0)
    /\ frame.ret.err # ErrNil => frame.ret.value = Zero
    /\ (rows.size = 0 /\ ~scanner.fails) =>
         frame.ret.err = IF rows.err THEN ErrArbitrary ELSE ErrNoRows
    /\ (rows.size >= 2 /\ ~scanner.fails) =>
         /\ frame.ret.err = ErrTooManyRows
         /\ CallsMade("ScanRowInto") = 1
         /\ CallsMade("Next:true") = 2

\* Two rows: the first was scanned, the second was found and left
\* unscanned, and the zero value came back with ErrTooManyRows.
C24_Witness ==
  /\ frame.fn = "CollectExactlyOneRow"
  /\ frame.pc = "returned"
  /\ rows.size = 2
  /\ frame.ret.err = ErrTooManyRows
  /\ frame.value = RowValue(0)
  /\ frame.ret.value = Zero

(***************************************************************************)
(* C25.  Every collector calls scanner.Initialize once, as its first call; *)
(* when Initialize fails it calls neither rows.Next nor ScanRowInto; and   *)
(* it calls ScanRowInto once for every row rows.Next offered, right after  *)
(* that Next.                                                              *)
(***************************************************************************)
\* Initialize is the first call and is made once; after its failure no
\* row is asked for or scanned.
InitializeFirst ==
  /\ log # << >> => log[1] = "Initialize"
  /\ CallsMade("Initialize") <= 1
  /\ scanner.fails =>
       CallsMade("Next:true") + CallsMade("Next:false") + CallsMade("ScanRowInto") = 0

\* A ScanRowInto follows a Next that returned true, and nothing else does.
ScanFollowsNext ==
  \A i \in 1..Len(log) :
    log[i] = "ScanRowInto" => i > 1 /\ log[i - 1] = "Next:true"

\* As stated: at the exit every row offered has been scanned once.
C25_ScanOncePerRow ==
  /\ InitializeFirst
  /\ ScanFollowsNext
  /\ Exited => CallsMade("ScanRowInto") = CallsMade("Next:true")

\* As the code has it: CollectExactlyOneRowUsing asks for a second row
\* only to see whether there is one, and returns ErrTooManyRows without
\* scanning it; every other row offered is scanned once.
C25_ScanOncePerRowButSecond ==
  /\ InitializeFirst
  /\ ScanFollowsNext
  /\ Exited =>
       CallsMade("ScanRowInto") =
         CallsMade("Next:true")
           - (IF frame.pc = "returned" /\ frame.ret.err = ErrTooManyRows
              THEN 1 ELSE 0)
  /\ (frame.pc = "returned" /\ frame.ret.err = ErrTooManyRows) =>
       /\ Body(frame.fn) = "CollectExactlyOneRowUsing"
       /\ log = <<"Initialize", "Next:true", "ScanRowInto", "Next:true", "Close">>

\* CollectExactlyOneRowUsing was offered two rows and scanned one.
C25_Witness ==
  /\ frame.fn = "CollectExactlyOneRowUsing"
  /\ Exited
  /\ CallsMade("Next:true") = 2
  /\ CallsMade("ScanRowInto") = 1

(***************************************************************************)
(* C26.  Without a reset the list under a key changes only by a swap that  *)
(* puts one new entry before the entries of the list that is under the key *)
(* at that moment: the caller's snapshot is that list, the length grows by *)
(* one, the old entries follow in their order, and no key leaves the map.  *)
(* A key enters the map with an empty list.                                *)
(***************************************************************************)
\* The list under key is replaced in this step.
Swapped(key) ==
  /\ key \in DOMAIN structRowFieldsByNameMap
  /\ structRowFieldsByNameMap'[key] # structRowFieldsByNameMap[key]

C26_PrependOnly ==
  [][ /\ DOMAIN structRowFieldsByNameMap \subseteq DOMAIN structRowFieldsByNameMap'
      /\ \A key \in DOMAIN structRowFieldsByNameMap' :
           /\ key \notin DOMAIN structRowFieldsByNameMap =>
                heap'[structRowFieldsByNameMap'[key]] = << >>
           /\ Swapped(key) =>
                \E p \in Callers :
                  /\ pc[p] = "cas"
                  /\ KeyOf(call[p].typ, call[p].cols) = key
                  /\ entriesIface[p] = structRowFieldsByNameMap[key]
                  /\ entries[p] = ListUnder(key)
                  /\ ListUnder(key)' = <<newEntry[p]>> \o ListUnder(key)
                  /\ Len(ListUnder(key)') = Len(ListUnder(key)) + 1
           /\ (key \in DOMAIN structRowFieldsByNameMap /\ ~Swapped(key)) =>
                ListUnder(key)' = ListUnder(key) ]_vars

\* A list of two entries is under a key, and the list it replaced, which
\* holds the second of them alone, is still what it was.
C26_Witness ==
  \E key \in DOMAIN structRowFieldsByNameMap :
    /\ Len(ListUnder(key)) = 2
    /\ \E old \in DOMAIN heap :
         /\ old.key = key
         /\ old.ver + 1 = structRowFieldsByNameMap[key].ver
         /\ heap[old] = Tail(ListUnder(key))

(***************************************************************************)
(* C27.  Of the callers that find a key absent and go to install an empty  *)
(* list, one stores its list.  Each of the others leaves the map as it is, *)
(* takes the pointer that is stored, scans the list it points to for its   *)
(* columns and returns a match.  So a caller on its way to the swap always *)
(* holds a pointer that is, or has been, under its key.                    *)
(***************************************************************************)
\* The key of p's call.
KeyAt(p) == KeyOf(call[p].typ, call[p].cols)

C27_OneListInstalled ==
  /\ [](\A p \in Callers :
          pc[p] \in {"lookup", "compute", "cas"} /\ call[p].op # "pos" =>
            /\ KeyAt(p) \in DOMAIN structRowFieldsByNameMap
            /\ entriesIface[p] \in DOMAIN heap
            /\ entriesIface[p].key = KeyAt(p)
            /\ entriesIface[p].ver <= structRowFieldsByNameMap[KeyAt(p)].ver)
  /\ [][\A p \in Callers :
          (pc[p] = "install" /\ pc'[p] # "install") =>
            /\ KeyAt(p) \in DOMAIN structRowFieldsByNameMap'
            /\ entriesIface'[p] = structRowFieldsByNameMap'[KeyAt(p)]
            /\ KeyAt(p) \notin DOMAIN structRowFieldsByNameMap =>
                 /\ ListUnder(KeyAt(p))' = << >>
                 /\ pc'[p] = "lookup"
            /\ KeyAt(p) \in DOMAIN structRowFieldsByNameMap =>
                 /\ structRowFieldsByNameMap' = structRowFieldsByNameMap
                 /\ heap' = heap
                 /\ entries'[p] = ListUnder(KeyAt(p))
                 /\ LET i == findEntry(ListUnder(KeyAt(p)), call[p].cols, 1)
                    IN IF i > 0
                       THEN /\ pc'[p] = "done"
                            /\ result'[p] = entryResult(ListUnder(KeyAt(p))[i])
                       ELSE pc'[p] = "lookup" ]_vars

\* Two callers found the key absent; one installed its list, the other
\* found that list stored, and both now stand before the swap with the
\* pointer to it.
C27_Witness ==
  \E p, q \in Callers :
    /\ p # q
    /\ pc[p] = "cas" /\ pc[q] = "cas"
    /\ KeyAt(p) = KeyAt(q)
    /\ entriesIface[p] = entriesIface[q]
    /\ entriesIface[p] = structRowFieldsByNameMap[KeyAt(p)]
    /\ entriesIface[p].ver = 0
    /\ ListUnder(KeyAt(p)) = << >>

(***************************************************************************)
(* C28.  The missing-field name of an entry is the column name of the      *)
(* first field of the type's table, in table order, that matched no        *)
(* column, and empty when every field matched.  The strict scanner         *)
(* reports that field whenever there is one, also when a column has no     *)
(* field.                                                                  *)
(***************************************************************************)
\* initialize was applied to the probe.
Initialized == probe.fn = "initialize" /\ answer.given

\* The positions in the table of probe.typ of the fields without a column.
UnmatchedAt ==
  { i \in 1..Len(EligibleFields[probe.typ]) :
      fieldPosByName(probe.cols, EligibleFields[probe.typ][i].name) = -1 }

\* The first of them.
FirstUnmatched == CHOOSE i \in UnmatchedAt : \A j \in UnmatchedAt : i <= j

\* Some column of the probe has no field.
ColumnUnmatched == firstUnset(answer.value.entry.fields, 0) # -1

C28_FirstUnmatchedField ==
  Initialized =>
    /\ UnmatchedAt = {} =>
         /\ answer.value.entry.missingField = << >>
         /\ answer.value.res.missingField = << >>
    /\ UnmatchedAt # {} =>
         /\ answer.value.entry.missingField =
              EligibleFields[probe.typ][FirstUnmatched].name
         /\ answer.value.res.missingField = answer.value.entry.missingField
         /\ answer.value.strict =
              ErrMissing(EligibleFields[probe.typ][FirstUnmatched].name)
         /\ ColumnUnmatched => answer.value.lax.kind = "nofield"

(***************************************************************************)
(* C29.  The table of a type is stable.  A table is stored only by a       *)
(* caller that computed it, and it is the table of the type; once stored   *)
(* it stays as it is; every caller that leaves lookupNamedStructRowFields, *)
(* having found the table or having computed its own, leaves a table       *)
(* stored and goes on with the stored one.                                 *)
(***************************************************************************)
\* p returns from lookupNamedStructRowFields in this step.
LeavesLookup(p) ==
  /\ pc[p] \in {"lookup", "compute"}
  /\ pc'[p] \notin {"lookup", "compute"}

C29_TableStable ==
  /\ [](\A t \in DOMAIN namedStructRowFieldMap :
          namedStructRowFieldMap[t] = EligibleFields[t])
  /\ [][ /\ \A t \in DOMAIN namedStructRowFieldMap :
              /\ t \in DOMAIN namedStructRowFieldMap'
              /\ namedStructRowFieldMap'[t] = namedStructRowFieldMap[t]
         /\ \A t \in DOMAIN namedStructRowFieldMap' :
              t \notin DOMAIN namedStructRowFieldMap =>
                \E p \in Callers : pc[p] = "compute" /\ call[p].typ = t
         /\ \A p \in Callers :
              LeavesLookup(p) =>
                /\ call[p].typ \in DOMAIN namedStructRowFieldMap'
                /\ call[p].op = "pos" =>
                     posFields'[p] = pathsOf(namedStructRowFieldMap'[call[p].typ])
                /\ call[p].op # "pos" =>
                     newEntry'[p] = buildNamedStructRowFieldsEntry(
                                      namedStructRowFieldMap'[call[p].typ],
                                      call[p].cols) ]_vars

\* Two callers missed the table of one type; the first has stored the
\* table it computed and gone on, the second has computed its own and is
\* about to find the first's stored.
C29_Witness ==
  \E p, q \in Callers :
    /\ p # q
    /\ call[p].typ = call[q].typ
    /\ pc[q] = "compute"
    /\ pc[p] \in {"cas", "posstore", "done"}
    /\ call[q].typ \in DOMAIN namedStructRowFieldMap

(***************************************************************************)
(* C30.  Visibility is looked at only for fields that are not embedded     *)
(* struct values.  A field that is not embedded and not exported has no    *)
(* entry in the table.  An embedded struct value is traversed whether the  *)
(* name of its type is exported or not: the entries of its own table,      *)
(* which are those of its exported fields, stand in the table.             *)
(***************************************************************************)
\* The fields of a type that are not exported.
NotExported(t) == { i \in 0..(NumField(t) - 1) : Field(t, i).PkgPath # "" }

C30_VisibilityNotForEmbedded ==
  Answered("computeStructFieldNames") =>
    LET table == answer.value
    IN /\ \A i \in NotExported(probe.typ) \ EmbeddedStructs(probe.typ) :
            Through(table, i) = << >>
       /\ \A i \in NotExported(probe.typ) \cap EmbeddedStructs(probe.typ) :
            /\ Len(Through(table, i)) = Len(EligibleFields[Field(probe.typ, i).Type])
            /\ \A k \in 1..Len(Through(table, i)) :
                 /\ Len(Through(table, i)[k].field.path) > 1
                 /\ Through(table, i)[k].name =
                      EligibleFields[Field(probe.typ, i).Type][k].name
       /\ probe.typ = "personLower" =>
            table = << [field |-> [path |-> <<0, 0>>], name |-> <<"F","i","r","s","t">>],
                       [field |-> [path |-> <<0, 1>>], name |-> <<"L","a","s","t">>],
                       [field |-> [path |-> <<1>>], name |-> <<"A","g","e">>] >>
       /\ probe.typ = "account" =>
            \A k \in 1..Len(table) : table[k].name # <<"s","e","c","r","e","t">>

\* type person struct { name; Age int32 }: the fields of the embedded
\* name are in the table.
C30_Witness ==
  /\ Answered("computeStructFieldNames")
  /\ probe.typ = "personLower"
  /\ NotExported(probe.typ) \cap EmbeddedStructs(probe.typ) = {0}
  /\ Len(Through(answer.value, 0)) = 2

(***************************************************************************)
(* C31: hashColNames writes each column name followed by one zero byte, in *)
(* order; when no name holds a zero byte, a different column sequence      *)
(* gives a different byte stream.                                          *)
(***************************************************************************)
NoZeroByte(cols) ==
  \A i \in 1..Len(cols) : \A j \in 1..Len(cols[i]) : cols[i][j] # ZeroByte

\* The bytes written, said without recursion: name after name, a zero byte
\* at the end of each.
WrittenInOrder(cols, bytes) ==
  \E cut \in [0..Len(cols) -> 0..Len(bytes)] :
    /\ cut[0] = 0
    /\ cut[Len(cols)] = Len(bytes)
    /\ \A i \in 1..Len(cols) :
         /\ cut[i] = cut[i - 1] + Len(cols[i]) + 1
         /\ bytes[cut[i]] = ZeroByte
         /\ \A j \in 1..Len(cols[i]) : bytes[cut[i - 1] + j] = cols[i][j]

C31_ZeroByteSeparates ==
  (probe.fn = "hashColNames" /\ answer.given) =>
    /\ WrittenInOrder(probe.cols, answer.value)
    /\ NoZeroByte(probe.cols) =>
         \A other \in HashColSeqs :
           (NoZeroByte(other) /\ other # probe.cols) =>
             HashStream(other) # answer.value

\* The columns "aa","a" were hashed: without the zero bytes "a","aa" would
\* give the same bytes.
C31_Witness ==
  /\ probe.fn = "hashColNames"
  /\ answer.given
  /\ probe.cols = << <<"a","a">>, <<"a">> >>
  /\ answer.value = <<"a","a",ZeroByte,"a",ZeroByte>>
  /\ HashStreamUndelimited(probe.cols) = HashStreamUndelimited(<< <<"a">>, <<"a","a">> >>)

(***************************************************************************)
(* C32: the collectors keep to the protocol MockRows enforces: rows.Err()  *)
(* is called only when rows is done (Next returned false or Close was      *)
(* called), ScanRowInto only when rows is not done; so the only panic is   *)
(* the one ThenPanic asks for.                                             *)
(***************************************************************************)
\* The calls made in the step, in order.
NewCalls == SubSeq(log', Len(log) + 1, Len(log'))

\* rows is done when the i-th call of the step is made: it was done before
\* the step, or an earlier call of the step is Close.
DoneAtCall(i) == rows.done \/ \E j \in 1..(i - 1) : NewCalls[j] = "Close"

C32_RowProtocolRespected ==
  /\ [](frame.pc = "panicked" =>
          /\ rows.panic
          /\ rows.rowIdx = rows.size
          /\ log[Len(log) - 1] = "ScanRowInto")
  /\ [][\A i \in 1..Len(NewCalls) :
          /\ NewCalls[i] = "Err" => DoneAtCall(i)
          /\ NewCalls[i] = "ScanRowInto" => ~DoneAtCall(i)]_vars

\* AppendRowsUsing returned after two rows: each was scanned after Next
\* said true, rows.Err() was asked after Next said false.
C32_Witness ==
  /\ Body(frame.fn) = "AppendRowsUsing"
  /\ frame.pc = "returned"
  /\ frame.ret.err = ErrNil
  /\ log = <<"Initialize", "Next:true", "ScanRowInto", "Next:true", "ScanRowInto",
             "Next:false", "Err", "Close">>

(***************************************************************************)
(* C33: when AppendRowsUsing returns an error and every row it appended    *)
(* went into the spare capacity of the caller's array (append never        *)
(* allocated), the slots from the caller's length up to the last element   *)
(* appended hold the zero value when the call returns.                     *)
(***************************************************************************)
\* Rows were appended and slice still begins where the caller's slice
\* begins.
AppendedInPlace ==
  /\ frame.input.cap > 0
  /\ frame.slice.arr = frame.input.arr
  /\ frame.slice.len > frame.input.len

C33_SpareCapacityZeroed ==
  (/\ Body(frame.fn) = "AppendRowsUsing"
   /\ frame.pc = "returned"
   /\ frame.ret.err # ErrNil
   /\ AppendedInPlace) =>
     /\ DOMAIN mem = {frame.input.arr}
     /\ \A i \in (frame.input.len + 1)..frame.slice.len :
          mem[frame.input.arr][i] = Zero

\* Two rows were scanned into the two spare slots of an empty slice, then
\* rows.Err() reported an error: both slots are zero again.
C33_Witness ==
  /\ frame.fn \in {"AppendRows", "AppendRowsUsing"}
  /\ frame.pc = "returned"
  /\ frame.ret.err = ErrArbitrary
  /\ frame.input.len = 0
  /\ frame.input.cap = 2
  /\ frame.slice.len = 2
  /\ AppendedInPlace
  /\ log = <<"Initialize", "Next:true", "ScanRowInto", "Next:true", "ScanRowInto",
             "Next:false", "Err", "Close">>
  /\ mem[frame.input.arr] = <<Zero, Zero>>

(***************************************************************************)
(* C34: one cached entry serves both modes: for a type and columns where   *)
(* every column has a field and some declared field has no column, every   *)
(* lax call succeeds and every strict call fails with the missing-field    *)
(* error, whoever built the entry and however the calls interleave.        *)
(***************************************************************************)
C34_OneEntryServesBothModes ==
  \A p \in Callers :
    (/\ NamedDone(p)
     /\ AllColumnsMatch(call[p].typ, call[p].cols)
     /\ ~AllFieldsMatch(call[p].typ, call[p].cols)) =>
       /\ call[p].op = "lax" => InitErr(p) = NoErr
       /\ call[p].op = "strict" => InitErr(p).kind = "missing"

(***************************************************************************)
(* C35: every entry of every collision list, stored under a key or         *)
(* replaced since, is fully assigned: it has one field path for each of    *)
(* its columns and no path is unset.                                       *)
(***************************************************************************)
FullyAssigned(e) ==
  /\ Len(e.fields) = Len(e.cols)
  /\ \A k \in 1..Len(e.fields) : isSet(e.fields[k])

C35_EntriesFullyAssigned ==
  \A ptr \in DOMAIN heap :
    \A i \in 1..Len(heap[ptr]) : FullyAssigned(heap[ptr][i])

\* A list holds two entries of different column counts, one of them for
\* columns that leave a declared field without a column: both have a path
\* at every position.
C35_Witness ==
  \E key \in DOMAIN structRowFieldsByNameMap :
    LET es == heap[structRowFieldsByNameMap[key]]
    IN /\ Len(es) = 2
       /\ Len(es[1].cols) # Len(es[2].cols)
       /\ \E i \in 1..2 : es[i].missingField # << >>
       /\ \A i \in 1..2 : FullyAssigned(es[i])

(***************************************************************************)
(* C36: the field paths a successful named resolution returns are all      *)
(* different: no field of the target is the destination of two columns.    *)
(***************************************************************************)
NoPathTwice(fields) ==
  \A i, j \in 1..Len(fields) : i # j => fields[i] # fields[j]

C36_NoPathTwice ==
  (/\ probe.fn = "initialize"
   /\ answer.given
   /\ answer.value.res.err = NoErr) =>
     /\ Len(answer.value.res.fields) = Len(probe.cols)
     /\ NoPathTwice(answer.value.res.fields)

\* The columns age, id resolved for staff, whose Age lies in an embedded
\* struct of an embedded struct: two columns, two different paths.
C36_Witness ==
  /\ probe.fn = "initialize"
  /\ answer.given
  /\ probe.typ = "staff"
  /\ probe.cols = <<ColAge, ColId>>
  /\ answer.value.res.err = NoErr
  /\ answer.value.res.fields = << [path |-> <<1, 1>>], [path |-> <<0>>] >>

(***************************************************************************)
(* C37: a column sequence with two columns of the same normalized name     *)
(* never resolves by name, strict or lax, and the later of the two is      *)
(* reported as the unmatched column.                                       *)
(***************************************************************************)
\* The columns that repeat the normalized name of an earlier column.
DupLater(cols) ==
  { j \in 1..Len(cols) : \E i \in 1..(j - 1) : NameEq(cols[i], cols[j]) }

\* initialize was applied to columns with a repeated normalized name.
DuplicateResolved ==
  /\ probe.fn = "initialize"
  /\ answer.given
  /\ DupLater(probe.cols) # {}

\* The error names a column that repeats an earlier one.
NamesLaterDuplicate(e) ==
  /\ e.kind = "nofield"
  /\ \E j \in DupLater(probe.cols) : e.name = probe.cols[j]

C37_DuplicateColumnReported ==
  DuplicateResolved =>
    /\ NamesLaterDuplicate(answer.value.strict)
    /\ NamesLaterDuplicate(answer.value.lax)

(***************************************************************************)
(* C37, as the code has it: such a sequence never resolves; the later      *)
(* column gets no field, the resolution returns the unmatched-column error *)
(* for the first column without a field, which is the later duplicate or a *)
(* column before it; the lax scanner returns that error, the strict        *)
(* scanner returns it unless the entry carries a missing field, which it   *)
(* reports instead.                                                        *)
(***************************************************************************)
C37_DuplicateColumnNeverResolves ==
  DuplicateResolved =>
    LET e == answer.value.entry
        res == answer.value.res
        k == firstUnset(e.fields, 0) + 1
    IN /\ \A j \in DupLater(probe.cols) : ~isSet(e.fields[j])
       /\ k >= 1
       /\ \A j \in DupLater(probe.cols) : k <= j
       /\ res = [fields |-> << >>, missingField |-> e.missingField,
                 err |-> ErrNoField(probe.cols[k])]
       /\ answer.value.lax = res.err
       /\ answer.value.strict =
            IF e.missingField # << >> THEN ErrMissing(e.missingField) ELSE res.err

\* The columns age, age for person: Age goes to the first, the second has
\* no field; the lax scanner reports the column age, the strict scanner
\* the field Last, which has no column.
C37_Witness ==
  /\ DuplicateResolved
  /\ probe.typ = "person"
  /\ probe.cols = <<ColAge, ColAge>>
  /\ isSet(answer.value.entry.fields[1])
  /\ answer.value.lax = ErrNoField(ColAge)
  /\ answer.value.strict = ErrMissing(<<"L","a","s","t">>)

(***************************************************************************)
(* C38: a named resolution that ends in the unmatched-column error changes *)
(* nothing of the shared state except that it may store the type's field   *)
(* table and may install an empty list under a key that had none: every    *)
(* list and every key keep what they hold, and no entry is added.          *)
(***************************************************************************)
\* Goroutine p takes the step, in a named call that is going to return
\* the unmatched-column error.
FailingStep(p) ==
  /\ pc'[p] # pc[p]
  /\ call'[p].op \in {"strict", "lax"}
  /\ ~AllColumnsMatch(call'[p].typ, call'[p].cols)

C38_FailedResolutionFrame ==
  /\ [](\A p \in Callers :
          (NamedDone(p) /\ ~AllColumnsMatch(call[p].typ, call[p].cols)) =>
             result[p].err.kind = "nofield")
  /\ [][\A p \in Callers :
          FailingStep(p) =>
            /\ \A ptr \in DOMAIN heap :
                 ptr \in DOMAIN heap' /\ heap'[ptr] = heap[ptr]
            /\ \A ptr \in DOMAIN heap' \ DOMAIN heap : heap'[ptr] = << >>
            /\ \A key \in DOMAIN structRowFieldsByNameMap :
                 /\ key \in DOMAIN structRowFieldsByNameMap'
                 /\ structRowFieldsByNameMap'[key] = structRowFieldsByNameMap[key]
            /\ \A key \in DOMAIN structRowFieldsByNameMap'
                          \ DOMAIN structRowFieldsByNameMap :
                 /\ key = KeyOf(call'[p].typ, call'[p].cols)
                 /\ heap'[structRowFieldsByNameMap'[key]] = << >>
            /\ structRowFieldsByPosMap' = structRowFieldsByPosMap
            /\ \/ namedStructRowFieldMap' = namedStructRowFieldMap
               \/ /\ call'[p].typ \notin DOMAIN namedStructRowFieldMap
                  /\ namedStructRowFieldMap' =
                       namedStructRowFieldMap @@
                         (call'[p].typ :> EligibleFields[call'[p].typ])]_vars

\* One call published an entry under its key; another, for columns with
\* one that has no field, failed: it left an empty list under its own key,
\* and the list of the first holds its one entry.
C38_Witness ==
  \E p, q \in Callers :
    /\ NamedDone(p) /\ NamedDone(q)
    /\ result[p].err.kind = "nofield"
    /\ Published(q)
    /\ KeyOf(call[p].typ, call[p].cols) # KeyOf(call[q].typ, call[q].cols)
    /\ ListUnder(KeyOf(call[q].typ, call[q].cols)) = <<newEntry[q]>>
    /\ KeyOf(call[p].typ, call[p].cols) \in DOMAIN structRowFieldsByNameMap
    /\ ListUnder(KeyOf(call[p].typ, call[p].cols)) = << >>
    /\ call[p].typ \in DOMAIN namedStructRowFieldMap

(***************************************************************************)
(* C39: every path of a type's field table can be followed on any value    *)
(* of the type without going through a pointer: all its elements but the   *)
(* last index embedded fields of struct type, so getField does not panic,  *)
(* whether the embedded pointers of the value are nil or not, and gives    *)
(* the address of the field the table entry stands for.                    *)
(***************************************************************************)
\* Every element of the path but the last indexes an embedded field of
\* struct type, and the last indexes a field.
RECURSIVE ThroughStructsOnly(_, _)
ThroughStructsOnly(t, path) ==
  /\ path # << >>
  /\ path[1] < NumField(t)
  /\ Len(path) > 1 =>
       /\ Field(t, path[1]).Anonymous
       /\ Kind(Field(t, path[1]).Type) = "struct"
       /\ ThroughStructsOnly(Field(t, path[1]).Type, Tail(path))

C39_PathsFollowable ==
  (probe.fn = "Populate" /\ answer.given) =>
    LET table == answer.value.table
        got == answer.value.scanTargets
    IN /\ Len(got) = Len(table)
       /\ \A i \in 1..Len(table) :
            /\ ThroughStructsOnly(probe.typ, table[i].field.path)
            /\ got[i].out = "ok"
            /\ got[i].sf.PkgPath = ""
            /\ ColNameOf(got[i].sf) = table[i].name

\* Populate on the zero value of struct { *Name; Age int32 }: the table
\* holds the pointer field itself at path 0, and its address is taken
\* although the pointer is nil.
C39_Witness ==
  /\ probe.fn = "Populate"
  /\ answer.given
  /\ probe.typ = "personPtr"
  /\ probe.field = RecvZero
  /\ pathsOf(answer.value.table) = << [path |-> <<0>>], [path |-> <<1>>] >>
  /\ answer.value.scanTargets[1].out = "ok"
  /\ answer.value.scanTargets[1].sf.Type = "*Name"

====
